---- MODULE Spec2Model ----
(***************************************************************************)
(* State machine of the AdvancedLoraStacker front-end node                 *)
(* (js/advanced_lora_stacker.js, v2 state management): the State Store     *)
(* (loraState), the id counters, the collapse set, the control list, the   *)
(* stack_data document field and the localStorage backup cache, driven by  *)
(* the host's events (control callbacks, serialisation, node creation and  *)
(* onConfigure).                                                           *)
(*                                                                         *)
(* Encoding of JavaScript values:                                          *)
(*   - numbers are integers (widget values such as 0.0, 1.0, 2.0);         *)
(*   - null is Null and undefined is Undefined, two values outside the     *)
(*     range of every id and strength;                                     *)
(*   - an object is a record (a function on its property names);           *)
(*   - a primitive held where an object is expected (loraState after a     *)
(*     load of "null", "5", "true") is boxed as [prim |-> <its token>];    *)
(*   - a JSON text is the sequence of its tokens.                          *)
(***************************************************************************)
EXTENDS Integers, Sequences, FiniteSets, TLC

VARIABLES
    loraState,        \* this.loraState
    nextGroupId,      \* this.nextGroupId
    nextLoraId,       \* this.nextLoraId
    collapsedGroups,  \* this.collapsedGroups
    widgets,          \* this.widgets, the control list
    stackData,        \* this.stackDataWidget.value, a JSON text
    _saving,          \* this._saving
    id,               \* this.id, the node id the host assigned
    localStorage,     \* the browser's localStorage: a function key -> JSON text
    document,         \* the control values of the host's last serialisation
    threw,            \* the last host event ended in an uncaught exception
    saves,            \* how often the last host event ran the body of saveState
    rebuilds,         \* how often the last host event ran rebuildUI
    peer,             \* a second node instance of the graph, with the id PeerId
    inputs,           \* this.inputs of the TextConcatenator node of the graph
    page,             \* the module state of the page: loraListPromise, availableLoRAs
    event             \* the last host event handled

vars == <<loraState, nextGroupId, nextLoraId, collapsedGroups, widgets, stackData,
          _saving, id, localStorage, document, threw, saves, rebuilds, peer, inputs, page, event>>

----------------------------------------------------------------------------
(* Bounds of the model *)

MaxSize == 3          \* groups + loras + edited fields held by the State Store
MaxThrows == 2        \* id-counter value up to which a throwing add is retried

----------------------------------------------------------------------------
(* JavaScript values *)

Null == 0 - 1
Undefined == 0 - 2

\* JS truthiness of a number, null or undefined
Truthy(x) == x # Null /\ x # Undefined /\ x # 0


\* the indices of s, ascending
Indices(s) == [i \in 1..Len(s) |-> i]

\* Array.prototype.filter, by index: the indices i of s with Test(s[i]), ascending
FilterIdx(s, Test(_)) == SelectSeq(Indices(s), LAMBDA i : Test(s[i]))

\* Array.prototype.findIndex, 1-based; 0 when nothing matches (JS: -1)
findIndex(s, Test(_)) ==
    LET hits == FilterIdx(s, Test) IN IF hits = <<>> THEN 0 ELSE hits[1]

\* Array.prototype.splice(idx, 1)
splice(s, idx) == SubSeq(s, 1, idx - 1) \o SubSeq(s, idx + 1, Len(s))

----------------------------------------------------------------------------
(* JSON texts: JSON.stringify and JSON.parse *)

LoraNames == {"None", "a.safetensors"}
Presets == {"Full", "Character", "Style", "Concept", "Fix Hands"}
Strings == LoraNames \cup Presets
MaxNum == 12          \* largest number a JSON text holds
Nums == 0..MaxNum

\* a string literal's token
Quote(s) == "\"" \o s \o "\""

\* property insertion order of the objects addGroup and addLora create
KeyOrder ==
    << "groups", "loras",
       "id", "group_id", "index", "name", "preset",
       "model_strength", "clip_strength", "random_model", "min_model", "max_model",
       "random_clip", "min_clip", "max_clip",
       "lock_model", "locked_model_value", "lock_clip", "locked_clip_value" >>

\* every string a JSON text of the model can quote
StringLiterals == Strings \cup {KeyOrder[i] : i \in DOMAIN KeyOrder}

BoolKeys == {"random_model", "random_clip", "lock_model", "lock_clip"}
StrKeys == {"name", "preset"}
ListKeys == {"groups", "loras"}

RECURSIVE StringifyList(_, _)
RECURSIVE StringifyMembers(_, _, _)

\* a stringify that writes every flag as false
StringifyValueFlagsLost(k, v) ==
    IF k \in ListKeys THEN <<"[">> \o StringifyList(v, 1) \o <<"]">>
    ELSE IF k \in BoolKeys THEN <<"false">>
    ELSE IF k \in StrKeys THEN <<Quote(v)>>
    ELSE IF v = Null THEN <<"null">>
    ELSE <<ToString(v)>>

\* the token(s) of one property value
StringifyValue(k, v) ==
    IF k \in ListKeys THEN <<"[">> \o StringifyList(v, 1) \o <<"]">>
    ELSE IF k \in BoolKeys THEN <<IF v THEN "true" ELSE "false">>
    ELSE IF k \in StrKeys THEN <<Quote(v)>>
    ELSE IF v = Null THEN <<"null">>
    ELSE <<ToString(v)>>

\* "key":value of the properties of o, from position i of KeyOrder on
StringifyMembers(o, i, first) ==
    IF i > Len(KeyOrder) THEN <<>>
    ELSE IF KeyOrder[i] \in DOMAIN o
         THEN (IF first THEN <<>> ELSE <<",">>)
              \o <<Quote(KeyOrder[i]), ":">>
              \o StringifyValue(KeyOrder[i], o[KeyOrder[i]])
              \o StringifyMembers(o, i + 1, FALSE)
         ELSE StringifyMembers(o, i + 1, first)

StringifyObject(o) == <<"{">> \o StringifyMembers(o, 1, TRUE) \o <<"}">>

StringifyList(s, i) ==
    IF i > Len(s) THEN <<>>
    ELSE (IF i > 1 THEN <<",">> ELSE <<>>)
         \o StringifyObject(s[i]) \o StringifyList(s, i + 1)

\* JSON.stringify(value) of a State Store value
JSONstringify(v) ==
    IF "prim" \in DOMAIN v THEN <<v.prim>> ELSE StringifyObject(v)

ParseFail == [ok |-> FALSE, val |-> <<>>, next |-> 0]

IsNumTok(t) == \E n \in Nums : ToString(n) = t
NumOf(t) == CHOOSE n \in Nums : ToString(n) = t
IsStrTok(t) == \E s \in StringLiterals : Quote(s) = t

RECURSIVE ParseValue(_, _)
RECURSIVE ParseMembers(_, _, _)
RECURSIVE ParseElements(_, _, _)

\* one JSON value starting at token i: [ok, val, next]
ParseValue(t, i) ==
    IF i > Len(t) THEN ParseFail
    ELSE IF t[i] = "{" THEN
        IF i + 1 <= Len(t) /\ t[i + 1] = "}"
        THEN [ok |-> TRUE, val |-> <<>>, next |-> i + 2]
        ELSE ParseMembers(t, i + 1, <<>>)
    ELSE IF t[i] = "[" THEN
        IF i + 1 <= Len(t) /\ t[i + 1] = "]"
        THEN [ok |-> TRUE, val |-> <<>>, next |-> i + 2]
        ELSE ParseElements(t, i + 1, <<>>)
    ELSE IF t[i] = "null" THEN [ok |-> TRUE, val |-> Null, next |-> i + 1]
    ELSE IF t[i] = "true" THEN [ok |-> TRUE, val |-> TRUE, next |-> i + 1]
    ELSE IF t[i] = "false" THEN [ok |-> TRUE, val |-> FALSE, next |-> i + 1]
    ELSE IF IsNumTok(t[i]) THEN [ok |-> TRUE, val |-> NumOf(t[i]), next |-> i + 1]
    ELSE IF IsStrTok(t[i])
         THEN [ok |-> TRUE,
               val |-> CHOOSE s \in StringLiterals : Quote(s) = t[i],
               next |-> i + 1]
    ELSE ParseFail

\* "key":value {,"key":value} "}" starting at token i; acc is the object so far
ParseMembers(t, i, acc) ==
    IF i + 1 > Len(t) \/ ~IsStrTok(t[i]) \/ t[i + 1] # ":" THEN ParseFail
    ELSE LET key == CHOOSE s \in StringLiterals : Quote(s) = t[i]
             r == ParseValue(t, i + 2)
         IN IF ~r.ok \/ r.next > Len(t) THEN ParseFail
            ELSE LET obj == (key :> r.val) @@ acc
                 IN IF t[r.next] = "}" THEN [ok |-> TRUE, val |-> obj, next |-> r.next + 1]
                    ELSE IF t[r.next] = "," THEN ParseMembers(t, r.next + 1, obj)
                    ELSE ParseFail

\* value {,value} "]" starting at token i; acc is the array so far
ParseElements(t, i, acc) ==
    LET r == ParseValue(t, i)
    IN IF ~r.ok \/ r.next > Len(t) THEN ParseFail
       ELSE LET arr == Append(acc, r.val)
            IN IF t[r.next] = "]" THEN [ok |-> TRUE, val |-> arr, next |-> r.next + 1]
               ELSE IF t[r.next] = "," THEN ParseElements(t, r.next + 1, arr)
               ELSE ParseFail

\* JSON.parse(text): [ok |-> FALSE] is a SyntaxError; a primitive result is boxed
JSONparse(t) ==
    LET r == ParseValue(t, 1)
    IN IF ~r.ok \/ r.next # Len(t) + 1 THEN [ok |-> FALSE, val |-> <<>>]
       ELSE IF t[1] = "{" THEN [ok |-> TRUE, val |-> r.val]
       ELSE IF t[1] = "[" THEN [ok |-> TRUE, val |-> [array |-> r.val]]
       ELSE [ok |-> TRUE, val |-> [prim |-> t[1]]]

----------------------------------------------------------------------------
(* The State Store value and its properties *)

\* reading a property of v raises a TypeError (v is null)
IsNullish(v) == "prim" \in DOMAIN v /\ v.prim = "null"

\* v.k is an array (v is an object that has property k)
HasList(v, k) == k \in DOMAIN v /\ k \in ListKeys

\* (v.k || []) of a value that is not null
ListOrEmpty(v, k) == IF HasList(v, k) THEN v[k] ELSE <<>>

\* if (localState): null, false and 0 are falsy, every object is truthy
TruthyValue(v) == ~("prim" \in DOMAIN v /\ v.prim \in {"null", "false", "0"})

\* loraData.<flag> as a condition
Flag(l, k) == k \in DOMAIN l /\ l[k]

EmptyState == [groups |-> <<>>, loras |-> <<>>]

----------------------------------------------------------------------------
(* The control list *)

Widget(role, groupId, loraId) == [role |-> role, _groupId |-> groupId, _loraId |-> loraId]

seedWidget == Widget("seed", Undefined, Undefined)
stackDataWidget == Widget("stack_data", Undefined, Undefined)
addLoraButton == Widget("add_lora", Undefined, Undefined)
addGroupButton == Widget("add_group", Undefined, Undefined)

\* the controls of a node right after onNodeCreated
BaseWidgets == <<seedWidget, stackDataWidget, addLoraButton, addGroupButton>>

\* a clearDynamicWidgets that removes nothing
clearDynamicWidgetsKept(ws) == ws

clearDynamicWidgets(ws) ==
    LET keepWidgets == {seedWidget, stackDataWidget, addLoraButton, addGroupButton}
    IN SelectSeq(ws, LAMBDA w : w \in keepWidgets)

\* a new control that stays where addWidget appended it
moveWidgetLeftAtEnd(ws, widgetIdx) == ws

\* a new control that is moved to the front of the control list
moveWidgetToFront(ws, widgetIdx) == <<ws[widgetIdx]>> \o splice(ws, widgetIdx)

\* this.widgets.splice(at, 0, widget), at being a position of rest from 1 on
InsertAt(rest, at, widget) ==
    SubSeq(rest, 1, at - 1) \o <<widget>> \o SubSeq(rest, at, Len(rest))

\* indexOf gives -1 for a missing Add LoRA button (findIndex: 0): the test then
\* holds for every widget and splice(-1, 0, widget) inserts before the last one
moveWidgetBeforeActionButtons(ws, widgetIdx) ==
    LET actionButtonIdx == findIndex(ws, LAMBDA w : w = addLoraButton)
    IN IF widgetIdx > actionButtonIdx
       THEN InsertAt(splice(ws, widgetIdx),
                     IF actionButtonIdx > 0 THEN actionButtonIdx
                     ELSE IF Len(ws) = 1 THEN 1 ELSE Len(ws) - 1,
                     ws[widgetIdx])
       ELSE ws

\* this.addWidget(...) (or ComfyWidgets.X(this, ...)) followed by
\* this.moveWidgetBeforeActionButtons(widget), for each widget of new in turn
RECURSIVE addWidgets(_, _)
addWidgets(ws, new) ==
    IF new = <<>> THEN ws
    ELSE addWidgets(moveWidgetBeforeActionButtons(Append(ws, Head(new)), Len(ws) + 1),
                    Tail(new))

createGroupWidgets(ws, groupId) ==
    addWidgets(ws, << Widget("group_header", groupId, Undefined),
                      Widget("group_remove", groupId, Undefined),
                      Widget("group_max_model", groupId, Undefined),
                      Widget("group_max_clip", groupId, Undefined),
                      Widget("group_add_lora", groupId, Undefined) >>)

\* grouped controls with the locked MODEL value shown whatever the checkbox says
createGroupedLoraControlsUnconditional(ws, loraId, groupId, loraData) ==
    addWidgets(ws,
        << Widget("lock_model", groupId, loraId),
           Widget("locked_model_value", groupId, loraId),
           Widget("lock_clip", groupId, loraId) >>
        \o (IF Flag(loraData, "lock_clip")
            THEN <<Widget("locked_clip_value", groupId, loraId)>> ELSE <<>>))

createGroupedLoraControls(ws, loraId, groupId, loraData) ==
    addWidgets(ws,
        <<Widget("lock_model", groupId, loraId)>>
        \o (IF Flag(loraData, "lock_model")
            THEN <<Widget("locked_model_value", groupId, loraId)>> ELSE <<>>)
        \o <<Widget("lock_clip", groupId, loraId)>>
        \o (IF Flag(loraData, "lock_clip")
            THEN <<Widget("locked_clip_value", groupId, loraId)>> ELSE <<>>))

createUngroupedLoraControls(ws, loraId, loraData) ==
    addWidgets(ws,
        << Widget("model_strength", Undefined, loraId),
           Widget("random_model", Undefined, loraId) >>
        \o (IF Flag(loraData, "random_model")
            THEN << Widget("min_model", Undefined, loraId),
                    Widget("max_model", Undefined, loraId) >>
            ELSE <<>>)
        \o << Widget("clip_strength", Undefined, loraId),
              Widget("random_clip", Undefined, loraId) >>
        \o (IF Flag(loraData, "random_clip")
            THEN << Widget("min_clip", Undefined, loraId),
                    Widget("max_clip", Undefined, loraId) >>
            ELSE <<>>))

createLoraWidgets(ws, loraId, groupId, loraData) ==
    IF groupId # Null
    THEN createGroupedLoraControls(
             addWidgets(ws, << Widget("name", groupId, loraId),
                               Widget("lora_remove", groupId, loraId),
                               Widget("preset", groupId, loraId) >>),
             loraId, groupId, loraData)
    ELSE createUngroupedLoraControls(
             addWidgets(ws, << Widget("name", groupId, loraId),
                               Widget("lora_remove", groupId, loraId),
                               Widget("preset", groupId, loraId) >>),
             loraId, loraData)

\* what computeSize adds for one control: stack_data reports [0, -4] and adds
\* nothing; no other control is given a computeSize, so each adds the standard 30
WidgetHeight(w) == IF w = stackDataWidget THEN 0 ELSE 30

RECURSIVE SumHeights(_)
SumHeights(ws) == IF ws = <<>> THEN 0 ELSE WidgetHeight(Head(ws)) + SumHeights(Tail(ws))

\* the height of the node: Math.max(140, 60 + the controls' heights)
computeSize(ws) == IF 60 + SumHeights(ws) > 140 THEN 60 + SumHeights(ws) ELSE 140

----------------------------------------------------------------------------
(* The node: the fields of `this` that the handlers read and write *)

Node(ls, ng, nl, cg, ws, sd, sv, store, th) ==
    [loraState |-> ls, nextGroupId |-> ng, nextLoraId |-> nl, collapsedGroups |-> cg,
     widgets |-> ws, stackData |-> sd, _saving |-> sv, localStorage |-> store,
     threw |-> th, saves |-> 0, rebuilds |-> 0]

\* an uncaught exception leaves the handler
Throw(n) == [n EXCEPT !.threw = TRUE]

----------------------------------------------------------------------------
(* Persistence Bridge: saveState, localStorage *)

\* a cache key that does not depend on the node id
StorageKeyShared(nodeId) == "AdvancedLoraStacker_"

StorageKey(nodeId) ==
    "AdvancedLoraStacker_" \o (IF nodeId = Undefined THEN "undefined" ELSE ToString(nodeId))

\* the browser refuses storage access (storage disabled or full): setItem and
\* getItem throw. The condition is kept in the store itself, under a key that
\* is no node's key.
StorageDown == "(storage throws)"
StorageThrows(store) == StorageDown \in DOMAIN store

\* try { localStorage.setItem(...) } catch: a throwing store is left as it is
saveStateToLocalStorage(store, nodeId, state) ==
    IF StorageThrows(store) THEN store
    ELSE (StorageKey(nodeId) :> JSONstringify(state)) @@ store

\* the parsed entry of nodeId, or null (boxed) when absent, empty or unparseable
loadStateFromLocalStorage(store, nodeId) ==
    LET key == StorageKey(nodeId)
    IN IF ~StorageThrows(store) /\ key \in DOMAIN store /\ store[key] # <<>>
       THEN LET p == JSONparse(store[key])
            IN IF p.ok THEN p.val ELSE [prim |-> "null"]
       ELSE [prim |-> "null"]

\* a saveState that writes the cache entry whatever the node id is
saveStateAnyId(n, nodeId) ==
    IF n._saving THEN n
    ELSE [n EXCEPT !.saves = @ + 1,
                   !.stackData = JSONstringify(n.loraState),
                   !.localStorage = saveStateToLocalStorage(@, nodeId, n.loraState)]

\* a saveState out of which the exception of a throwing store escapes, after the
\* field was written and before _saving is cleared
saveStateStorageUncaught(n, nodeId) ==
    IF n._saving THEN n
    ELSE IF Truthy(nodeId) /\ StorageThrows(n.localStorage)
    THEN Throw([n EXCEPT !.saves = @ + 1,
                         !.stackData = JSONstringify(n.loraState),
                         !._saving = TRUE])
    ELSE [n EXCEPT !.saves = @ + 1,
                   !.stackData = JSONstringify(n.loraState),
                   !.localStorage = IF Truthy(nodeId)
                                    THEN saveStateToLocalStorage(@, nodeId, n.loraState)
                                    ELSE @,
                   !._saving = FALSE]

\* _saving is set on entry and cleared on exit; nothing in between can throw
\* (saveStateToLocalStorage catches), so the body leaves it false
saveState(n, nodeId) ==
    IF n._saving THEN n
    ELSE [n EXCEPT !.saves = @ + 1,
                   !.stackData = JSONstringify(n.loraState),
                   !.localStorage = IF Truthy(nodeId)
                                    THEN saveStateToLocalStorage(@, nodeId, n.loraState)
                                    ELSE @,
                   !._saving = FALSE]

----------------------------------------------------------------------------
(* UI Reconciler: rebuildUI *)

\* Map.prototype.set(key, value): a later set of the same key wins
MapSet(map, key, value) == (key :> value) @@ map

\* one pass of the loop over groupLoras / ungroupedLoras
\* acc is [widgets, nextLora, loraIdMap, groupIdMap]
RebuildLora(loraData, newGroupId, acc) ==
    [widgets |-> createLoraWidgets(acc.widgets, acc.nextLora, newGroupId, loraData),
     nextLora |-> acc.nextLora + 1,
     loraIdMap |-> MapSet(acc.loraIdMap, loraData.id, acc.nextLora),
     groupIdMap |-> acc.groupIdMap]

RECURSIVE RebuildLoras(_, _, _, _)
RebuildLoras(loras, idx, newGroupId, acc) ==
    IF idx = <<>> THEN acc
    ELSE RebuildLoras(loras, Tail(idx), newGroupId,
                      RebuildLora(loras[Head(idx)], newGroupId, acc))

\* a rebuild that creates the controls of a group under the group's old id
RebuildGroupOldTag(oldGroupId, newGroupId, acc) ==
    [acc EXCEPT !.widgets = createGroupWidgets(@, oldGroupId),
                !.groupIdMap = MapSet(@, oldGroupId, newGroupId)]

\* createGroupWidgets and groupIdMap.set for the group at position k
RebuildGroup(oldGroupId, newGroupId, acc) ==
    [acc EXCEPT !.widgets = createGroupWidgets(@, newGroupId),
                !.groupIdMap = MapSet(@, oldGroupId, newGroupId)]

\* the loop over state.groups, from position k on
RECURSIVE RebuildGroups(_, _, _, _)
RebuildGroups(groups, loras, k, acc) ==
    IF k > Len(groups) THEN acc
    ELSE RebuildGroups(groups, loras, k + 1,
             RebuildLoras(loras,
                          FilterIdx(loras, LAMBDA l : l.group_id = groups[k].id),
                          k,
                          RebuildGroup(groups[k].id, k, acc)))

\* a rebuild that builds the ungrouped loras before the groups
RebuiltUngroupedFirst(state, ws) ==
    RebuildGroups(ListOrEmpty(state, "groups"), ListOrEmpty(state, "loras"), 1,
        RebuildLoras(ListOrEmpty(state, "loras"),
                     FilterIdx(ListOrEmpty(state, "loras"), LAMBDA l : ~Truthy(l.group_id)),
                     Null,
                     [widgets |-> ws, nextLora |-> 1,
                      loraIdMap |-> <<>>, groupIdMap |-> <<>>]))

\* the controls and the id maps of a rebuild of state onto the cleared list ws
Rebuilt(state, ws) ==
    RebuildLoras(ListOrEmpty(state, "loras"),
                 FilterIdx(ListOrEmpty(state, "loras"), LAMBDA l : ~Truthy(l.group_id)),
                 Null,
                 RebuildGroups(ListOrEmpty(state, "groups"), ListOrEmpty(state, "loras"), 1,
                               [widgets |-> ws, nextLora |-> 1,
                                loraIdMap |-> <<>>, groupIdMap |-> <<>>]))

\* "Update IDs in state to match new IDs", one group
RenumberGroup(group, groupIdMap) ==
    IF group.id \in DOMAIN groupIdMap /\ Truthy(groupIdMap[group.id])
    THEN [group EXCEPT !.id = groupIdMap[group.id]]
    ELSE group

\* a rebuild that resets the counters and leaves the lora ids as they were
RenumberLoraIdKept(lora, loraIdMap) == lora

\* "Update IDs in state to match new IDs", the id of one lora
RenumberLoraId(lora, loraIdMap) ==
    IF lora.id \in DOMAIN loraIdMap /\ Truthy(loraIdMap[lora.id])
    THEN [lora EXCEPT !.id = loraIdMap[lora.id]]
    ELSE lora

\* a group_id rewrite that puts every grouped lora into the first group
RenumberLoraGroupToFirst(lora, groupIdMap) ==
    [lora EXCEPT !.group_id = IF Truthy(@) THEN 1 ELSE Null]

\* a group_id rewrite that ungroups every lora
RenumberLoraGroupToNull(lora, groupIdMap) == [lora EXCEPT !.group_id = Null]

\* "Update IDs in state to match new IDs", the group_id of one lora
RenumberLoraGroup(lora, groupIdMap) ==
    IF ~Truthy(lora.group_id) THEN [lora EXCEPT !.group_id = Null]
    ELSE IF lora.group_id \in DOMAIN groupIdMap
         THEN [lora EXCEPT !.group_id = groupIdMap[lora.group_id]]
    ELSE lora

\* "Update IDs in state to match new IDs", the two loops
RenumberState(state, groupIdMap, loraIdMap) ==
    [k \in DOMAIN state |->
        IF k = "groups"
        THEN [i \in 1..Len(state.groups) |-> RenumberGroup(state.groups[i], groupIdMap)]
        ELSE IF k = "loras"
        THEN [i \in 1..Len(state.loras) |->
                 RenumberLoraGroup(RenumberLoraId(state.loras[i], loraIdMap), groupIdMap)]
        ELSE state[k]]

\* the end of rebuildUI: ids and counters follow the controls just built
FinishRebuild(n, built) ==
    [n EXCEPT !.rebuilds = @ + 1,
              !.widgets = built.widgets,
              !.loraState = RenumberState(@, built.groupIdMap, built.loraIdMap),
              !.nextGroupId = Len(ListOrEmpty(n.loraState, "groups")) + 1,
              !.nextLoraId = built.nextLora]

rebuildUI(n) ==
    IF IsNullish(n.loraState)
    THEN Throw([n EXCEPT !.rebuilds = @ + 1, !.widgets = clearDynamicWidgets(@)])
    ELSE FinishRebuild(n, Rebuilt(n.loraState, clearDynamicWidgets(n.widgets)))

----------------------------------------------------------------------------
(* Persistence Bridge: restoreState, onConfigure, onNodeCreated *)

\* the catch of restoreState: the exception ends there
Caught(n) == [n EXCEPT !.threw = FALSE]

\* a restoreState whose SyntaxError of JSON.parse escapes
AdoptParsedUncaught(n, parsed) ==
    IF ~parsed.ok THEN Throw(n)
    ELSE Caught(rebuildUI([n EXCEPT !.widgets = clearDynamicWidgets(@),
                                    !.loraState = parsed.val]))

\* the rest of the try block of restoreState once JSON.parse has returned
AdoptParsed(n, parsed) ==
    IF ~parsed.ok THEN n
    ELSE Caught(rebuildUI([n EXCEPT !.widgets = clearDynamicWidgets(@),
                                    !.loraState = parsed.val]))

\* the try block of restoreState: a SyntaxError of JSON.parse and a TypeError of
\* rebuildUI are both caught
restoreFromField(n) == AdoptParsed(n, JSONparse(n.stackData))

\* a localStorage branch that adopts the cached state without saving it
restoreFromLocalNoSave(n, nodeId, localState) ==
    IF TruthyValue(localState)
    THEN restoreFromField([n EXCEPT !.loraState = localState])
    ELSE n

\* the localStorage branch of restoreState
restoreFromLocal(n, nodeId, localState) ==
    IF TruthyValue(localState)
    THEN restoreFromField(saveState([n EXCEPT !.loraState = localState], nodeId))
    ELSE n

\* a restoreState that takes the cache entry whenever there is one
restoreStateCacheFirst(n, nodeId) ==
    IF TruthyValue(loadStateFromLocalStorage(n.localStorage, nodeId))
    THEN restoreFromLocal(n, nodeId, loadStateFromLocalStorage(n.localStorage, nodeId))
    ELSE restoreFromField(n)

restoreState(n, nodeId) ==
    IF n.stackData = <<>>
    THEN restoreFromLocal(n, nodeId, loadStateFromLocalStorage(n.localStorage, nodeId))
    ELSE restoreFromField(n)

\* "Try to load from widget value first": widgets_values is the array the host
\* delivers, the stack_data text at the index of the stack_data control
PrimeField(n, widgets_values, stackDataIndex) ==
    IF stackDataIndex >= 1 /\ stackDataIndex <= Len(widgets_values)
       /\ widgets_values[stackDataIndex] # <<>>
    THEN [n EXCEPT !.stackData = widgets_values[stackDataIndex]]
    ELSE n

onConfigure(n, nodeId, widgets_values) ==
    restoreState(PrimeField(n, widgets_values,
                            findIndex(n.widgets, LAMBDA w : w.role = "stack_data")),
                 nodeId)

\* a new node instance on the same page storage
onNodeCreated(store) ==
    Node(EmptyState, 1, 1, {}, BaseWidgets, <<>>, FALSE, store, FALSE)

\* a serializeValue that returns the field without saving first
serializeValueStale(n, nodeId) == n

\* stackDataWidget.serializeValue
serializeValue(n, nodeId) == saveState(n, nodeId)

----------------------------------------------------------------------------
(* Mutation API *)

NumEntities(state) == Len(ListOrEmpty(state, "groups")) + Len(ListOrEmpty(state, "loras"))

\* this.rebuildUI(); this.saveState(); an exception of rebuildUI skips the save
SaveUnlessThrew(n, nodeId) == IF n.threw THEN n ELSE saveState(n, nodeId)

\* a new group that takes the number of the groups before it as its index
NewGroupIndexedFromZero(groupId, groupIndex) ==
    [id |-> groupId, index |-> groupIndex - 1, max_model |-> 1, max_clip |-> 1]

NewGroup(groupId, groupIndex) ==
    [id |-> groupId, index |-> groupIndex, max_model |-> 1, max_clip |-> 1]

addGroup(n, nodeId) ==
    IF ~HasList(n.loraState, "groups") THEN Throw([n EXCEPT !.nextGroupId = @ + 1])
    ELSE saveState([n EXCEPT
                       !.nextGroupId = @ + 1,
                       !.loraState.groups =
                           Append(@, NewGroup(n.nextGroupId, Len(n.loraState.groups) + 1)),
                       !.widgets = createGroupWidgets(@, n.nextGroupId)],
                   nodeId)

NewLora(loraId, groupId) ==
    IF groupId = Null
    THEN [id |-> loraId, group_id |-> groupId, name |-> "None", preset |-> "Full",
          model_strength |-> 1, clip_strength |-> 1,
          random_model |-> FALSE, min_model |-> 0, max_model |-> 1,
          random_clip |-> FALSE, min_clip |-> 0, max_clip |-> 1]
    ELSE [id |-> loraId, group_id |-> groupId, name |-> "None", preset |-> "Full",
          lock_model |-> FALSE, locked_model_value |-> 0,
          lock_clip |-> FALSE, locked_clip_value |-> 0]

addLora(n, nodeId, groupId) ==
    IF ~HasList(n.loraState, "loras") THEN Throw([n EXCEPT !.nextLoraId = @ + 1])
    ELSE saveState([n EXCEPT
                       !.nextLoraId = @ + 1,
                       !.loraState.loras = Append(@, NewLora(n.nextLoraId, groupId)),
                       !.widgets = createLoraWidgets(@, n.nextLoraId, groupId,
                                                     NewLora(n.nextLoraId, groupId))],
                   nodeId)

\* a removal that leaves the index of the remaining groups as it was
ReindexedStale(groups) == groups

\* "Update indices"
Reindexed(groups) == [i \in 1..Len(groups) |-> [groups[i] EXCEPT !.index = i]]

\* a removeGroup that leaves the loras of the group in the State Store
removeGroupAtNoCascade(n, nodeId, groupId, groupIdx) ==
    IF groupIdx < 1 THEN n
    ELSE IF ~HasList(n.loraState, "loras") THEN Throw(n)
    ELSE SaveUnlessThrew(
             rebuildUI([n EXCEPT !.loraState.groups = Reindexed(splice(@, groupIdx))]),
             nodeId)

\* removeGroup once findIndex has returned groupIdx (0: not found)
removeGroupAt(n, nodeId, groupId, groupIdx) ==
    IF groupIdx < 1 THEN n
    ELSE IF ~HasList(n.loraState, "loras") THEN Throw(n)
    ELSE SaveUnlessThrew(
             rebuildUI([n EXCEPT
                 !.loraState.loras = SelectSeq(@, LAMBDA l : l.group_id # groupId),
                 !.loraState.groups = Reindexed(splice(@, groupIdx))]),
             nodeId)

removeGroup(n, nodeId, groupId) ==
    IF ~HasList(n.loraState, "groups") THEN Throw(n)
    ELSE removeGroupAt(n, nodeId, groupId,
                       findIndex(n.loraState.groups, LAMBDA g : g.id = groupId))

\* a removeLora without the "not found" return: splice(-1, 1) drops the last lora
removeLoraAtUnchecked(n, nodeId, loraIdx) ==
    SaveUnlessThrew(
        rebuildUI([n EXCEPT !.loraState.loras =
                       splice(@, IF loraIdx < 1 THEN Len(@) ELSE loraIdx)]),
        nodeId)

\* removeLora once findIndex has returned loraIdx (0: not found)
removeLoraAt(n, nodeId, loraIdx) ==
    IF loraIdx < 1 THEN n
    ELSE SaveUnlessThrew(rebuildUI([n EXCEPT !.loraState.loras = splice(@, loraIdx)]),
                         nodeId)

removeLora(n, nodeId, loraId) ==
    IF ~HasList(n.loraState, "loras") THEN Throw(n)
    ELSE removeLoraAt(n, nodeId, findIndex(n.loraState.loras, LAMBDA l : l.id = loraId))

toggleGroupCollapse(n, groupId) ==
    rebuildUI([n EXCEPT !.collapsedGroups = IF groupId \in @ THEN @ \ {groupId}
                                            ELSE @ \cup {groupId}])

\* the roles whose callback rebuilds the UI after the edit
RebuildingRoles == {"lock_model", "lock_clip", "random_model", "random_clip"}
GroupFieldRoles == {"group_max_model", "group_max_clip"}
LoraFieldRoles ==
    {"name", "preset", "lock_model", "locked_model_value", "lock_clip",
     "locked_clip_value", "model_strength", "random_model", "min_model", "max_model",
     "clip_strength", "random_clip", "min_clip", "max_clip"}

\* a group callback once find has returned the group at idx (0: not found)
groupFieldAt(n, nodeId, field, idx, v) ==
    IF idx < 1 THEN n
    ELSE saveState([n EXCEPT !.loraState.groups[idx][field] = v], nodeId)

\* the callback of a Max MODEL / Max CLIP control created for groupId
groupFieldCallback(n, nodeId, role, groupId, v) ==
    IF ~HasList(n.loraState, "groups") THEN Throw(n)
    ELSE groupFieldAt(n, nodeId,
                      IF role = "group_max_model" THEN "max_model" ELSE "max_clip",
                      findIndex(n.loraState.groups, LAMBDA g : g.id = groupId), v)

\* a checkbox callback whose rebuild saves as well, before the callback's save
loraFieldAtSavingTwice(n, nodeId, role, idx, v) ==
    IF idx < 1 THEN n
    ELSE saveState(saveState(rebuildUI([n EXCEPT !.loraState.loras[idx] = (role :> v) @@ @]),
                             nodeId),
                   nodeId)

\* a lora callback whose edit puts the other fields back to addLora's values
loraFieldAtResetting(n, nodeId, role, idx, v) ==
    IF idx < 1 THEN n
    ELSE SaveUnlessThrew(
             rebuildUI([n EXCEPT !.loraState.loras[idx] =
                                     (role :> v) @@ NewLora(@.id, @.group_id)]),
             nodeId)

\* a lora callback once find has returned the lora at idx (0: not found)
loraFieldAt(n, nodeId, role, idx, v) ==
    IF idx < 1 THEN n
    ELSE IF role \in RebuildingRoles
    THEN SaveUnlessThrew(rebuildUI([n EXCEPT !.loraState.loras[idx] = (role :> v) @@ @]),
                         nodeId)
    ELSE saveState([n EXCEPT !.loraState.loras[idx] = (role :> v) @@ @], nodeId)

\* the callback of a control created for loraId; the role names the field it edits
loraFieldCallback(n, nodeId, role, loraId, v) ==
    IF ~HasList(n.loraState, "loras") THEN Throw(n)
    ELSE loraFieldAt(n, nodeId, role,
                     findIndex(n.loraState.loras, LAMBDA l : l.id = loraId), v)

----------------------------------------------------------------------------
(* TextConcatenator: the input sockets of the companion node *)

\* a socket name is the sequence of its parts: "text_2" is <<"text", "_", "2">>
INPUT_PREFIX == <<"text">>
INPUT_TYPE == "STRING"

\* the host's addInput: a new unlinked socket at the end of this.inputs
addInput(ins, name, type) == Append(ins, [name |-> name, type |-> type, link |-> Null])

\* removeInput that leaves the socket in place
removeInputKept(ins, slot) == ins

\* the host's removeInput at the 1-based position slot: a splice, and nothing
\* when there is no such position
removeInput(ins, slot) == IF slot \in 1..Len(ins) THEN splice(ins, slot) ELSE ins

\* name.split('_')[0]: the parts before the first "_"
RECURSIVE SplitFirst(_)
SplitFirst(name) ==
    IF name = <<>> \/ Head(name) = "_" THEN <<>>
    ELSE <<Head(name)>> \o SplitFirst(Tail(name))

\* (slot_tracker[name] || 0) + 1
NextCount(slot_tracker, name) ==
    IF name \in DOMAIN slot_tracker THEN slot_tracker[name] + 1 ELSE 1

\* the loop "for (const slot of this.inputs)": the iterator is at the 1-based
\* position pos of the live array, idx is the loop's counter of linked sockets;
\* an unlinked socket makes the loop remove the socket at idx, a linked socket
\* is renamed to its base name and its number among the sockets of that base
RECURSIVE TrackSlots(_, _, _, _)
TrackSlots(ins, pos, idx, slot_tracker) ==
    IF pos > Len(ins) THEN ins
    ELSE IF ins[pos].link = Null
    THEN TrackSlots(removeInput(ins, idx + 1), pos + 1, idx, slot_tracker)
    ELSE TrackSlots(
             [ins EXCEPT ![pos].name =
                 SplitFirst(@) \o <<"_", ToString(NextCount(slot_tracker, SplitFirst(@)))>>],
             pos + 1, idx + 1,
             (SplitFirst(ins[pos].name) :> NextCount(slot_tracker, SplitFirst(ins[pos].name)))
                 @@ slot_tracker)

\* "Check that the last slot is a dynamic entry"
EnsureDynamicLast(ins) ==
    IF \/ ins = <<>>
       \/ ins[Len(ins)].name # INPUT_PREFIX
       \/ ins[Len(ins)].type # INPUT_TYPE
    THEN addInput(ins, INPUT_PREFIX, INPUT_TYPE)
    ELSE ins

\* no output type: link_info, the origin node or its output is missing
NoParent == ""

\* a connect event sets type and name of node_slot, the socket at slot_idx, when
\* the link has an origin output of type parentType
ConnectSlot(ins, slot_idx, parentType) ==
    IF parentType = NoParent THEN ins
    ELSE [ins EXCEPT ![slot_idx].type = parentType,
                     ![slot_idx].name = INPUT_PREFIX \o <<"_">>]

\* onConnectionsChange for slotType Input at the 1-based position slot_idx;
\* connect is the event (TypeSlotEvent.Connect = true)
onConnectionsChange(ins, slot_idx, connect, parentType) ==
    EnsureDynamicLast(
        TrackSlots(IF connect THEN ConnectSlot(ins, slot_idx, parentType)
                   ELSE removeInput(ins, slot_idx),
                   1, 0, <<>>))

\* onNodeCreated of the TextConcatenator: the first dynamic text input
TextNodeCreated == addInput(<<>>, INPUT_PREFIX, INPUT_TYPE)

----------------------------------------------------------------------------
(* fetchLoraList: the candidate names, fetched by the page *)

\* the registrations that call fetchLoraList
Callers == 1..MaxSize

\* the module state when the script has been loaded: no promise, the list
\* ["None"], no fetch sent; task is the position of the async function that
\* loraListPromise belongs to, callers the position of each registration,
\* errors counts the calls of console.error
PageLoaded ==
    [loraListPromise |-> "null",
     availableLoRAs |-> <<"None">>,
     fetches |-> 0,
     task |-> "none",
     errors |-> 0,
     callers |-> [c \in Callers |-> "idle"]]

\* a catch that logs and throws again: the promise is rejected
CaughtFetchRethrown(p) ==
    [p EXCEPT !.task = "done", !.errors = @ + 1, !.loraListPromise = "rejected"]

\* catch (error) { console.error(...) }: the async function ends normally
CaughtFetch(p) ==
    [p EXCEPT !.task = "done", !.errors = @ + 1, !.loraListPromise = "resolved"]

\* fetchLoraList called by the registration c: the first call creates the
\* promise and runs the async function up to its first await, which sends the
\* fetch; every call returns the promise, which the caller awaits
fetchLoraList(p, c) ==
    IF p.loraListPromise # "null"
    THEN [p EXCEPT !.callers[c] = "awaiting"]
    ELSE [p EXCEPT !.callers[c] = "awaiting",
                   !.loraListPromise = "pending",
                   !.fetches = @ + 1,
                   !.task = "fetching"]

\* what response.json() can give: kind "missing" has no truthy
\* LoraLoader.input.required.lora_name[0], kind "list" has an array there, kind
\* "number" a truthy value that cannot be spread
DataShapes ==
    { [kind |-> "missing", names |-> <<>>],
      [kind |-> "number", names |-> <<>>],
      [kind |-> "list", names |-> <<>>],
      [kind |-> "list", names |-> <<"a.safetensors">>],
      [kind |-> "list", names |-> <<"None", "a.safetensors">>] }

\* the async function after "const data = await response.json()"
Decoded(p, data) ==
    IF data.kind = "missing" THEN [p EXCEPT !.task = "done", !.loraListPromise = "resolved"]
    ELSE IF data.kind = "number" THEN CaughtFetch(p)
    ELSE [p EXCEPT !.task = "done", !.loraListPromise = "resolved",
                   !.availableLoRAs = <<"None">> \o data.names]

\* beforeRegisterNodeDef after "await fetchLoraList()": the registration goes
\* on when the promise is resolved and ends in the exception when it is rejected
Resumed(p, c) ==
    [p EXCEPT !.callers[c] = IF p.loraListPromise = "rejected" THEN "aborted"
                             ELSE "registered"]

\* a page whose node type has been registered
PageRegistered ==
    Resumed(Decoded(fetchLoraList(PageLoaded, 1),
                    [kind |-> "list", names |-> <<"a.safetensors">>]), 1)

----------------------------------------------------------------------------
(* Host events *)

\* the node as the handler of the next event finds it
Cur == Node(loraState, nextGroupId, nextLoraId, collapsedGroups, widgets, stackData,
            _saving, localStorage, FALSE)

\* the node as the handler leaves it
Commit(n, ev) ==
    /\ loraState' = n.loraState
    /\ nextGroupId' = n.nextGroupId
    /\ nextLoraId' = n.nextLoraId
    /\ collapsedGroups' = n.collapsedGroups
    /\ widgets' = n.widgets
    /\ stackData' = n.stackData
    /\ _saving' = n._saving
    /\ localStorage' = n.localStorage
    /\ threw' = n.threw
    /\ saves' = n.saves
    /\ rebuilds' = n.rebuilds
    /\ peer' = peer
    /\ inputs' = inputs
    /\ page' = page
    /\ event' = ev

\* node ids the host may have given the node: none yet, 0, 1
NodeIds == {Undefined, 0, 1}

\* the value addLora gives each field of a new lora, grouped or not
DefaultLora == NewLora(0, Null) @@ NewLora(0, 1)

\* a value a numeric control reports besides the field's default
EditNums == {2}

\* the presets the user picks in the model
EditPresets == {"Full", "Style"}

EditValues(role) ==
    IF role \in RebuildingRoles THEN BOOLEAN
    ELSE IF role = "name" THEN LoraNames
    ELSE IF role = "preset" THEN EditPresets
    ELSE EditNums \cup {DefaultLora[role]}

\* the number of fields of the State Store that differ from the value addGroup
\* or addLora gave them
NumEdited(state) ==
    Cardinality({ <<i, k>> \in (1..Len(ListOrEmpty(state, "groups"))) \X {"max_model", "max_clip"} :
                    state.groups[i][k] # 1 })
    + Cardinality({ <<i, k>> \in (1..Len(ListOrEmpty(state, "loras"))) \X (LoraFieldRoles) :
                    /\ k \in DOMAIN state.loras[i]
                    /\ state.loras[i][k] # DefaultLora[k] })

\* the size of the State Store: its entities and its edited fields
Size(state) == NumEntities(state) + NumEdited(state)

\* the State Store has room for one more entity or edited field
Room == Size(loraState) < MaxSize

\* an edit changes the field's value and does not grow the State Store beyond
\* MaxSize
GroupEditEnabled(room, idx, field, v) ==
    \/ idx < 1
    \/ /\ loraState.groups[idx][field] # v
       /\ room \/ v = 1 \/ loraState.groups[idx][field] # 1

LoraEditEnabled(room, idx, role, v) ==
    \/ idx < 1
    \/ /\ loraState.loras[idx][role] # v
       /\ room \/ v = DefaultLora[role] \/ loraState.loras[idx][role] # DefaultLora[role]

\* an add is enabled while the State Store has room; an add that throws (the
\* State Store lacks the list) is enabled while the id counter is small
AddEnabled(list, counter) ==
    IF HasList(loraState, list) THEN Room
    ELSE counter <= MaxThrows

\* click on the permanent "Add Group" button
ClickAddGroup ==
    /\ AddEnabled("groups", nextGroupId)
    /\ Commit(addGroup(Cur, id), "addGroup")
    /\ UNCHANGED <<id, document>>

\* click on the permanent "Add LoRA" button
ClickAddLora ==
    /\ AddEnabled("loras", nextLoraId)
    /\ Commit(addLora(Cur, id, Null), "addLora")
    /\ UNCHANGED <<id, document>>

\* click on a group's "Add LoRA" button
ClickGroupAddLora ==
    \E i \in 1..Len(widgets) :
        /\ widgets[i].role = "group_add_lora"
        /\ AddEnabled("loras", nextLoraId)
        /\ Commit(addLora(Cur, id, widgets[i]._groupId), "addLora")
        /\ UNCHANGED <<id, document>>

\* click on a group's "Remove" button
ClickRemoveGroup ==
    \E i \in 1..Len(widgets) :
        /\ widgets[i].role = "group_remove"
        /\ Commit(removeGroup(Cur, id, widgets[i]._groupId), "removeGroup")
        /\ UNCHANGED <<id, document>>

\* click on a lora's remove button
ClickRemoveLora ==
    \E i \in 1..Len(widgets) :
        /\ widgets[i].role = "lora_remove"
        /\ Commit(removeLora(Cur, id, widgets[i]._loraId), "removeLora")
        /\ UNCHANGED <<id, document>>

\* click on a group's header button
ClickGroupHeader ==
    \E i \in 1..Len(widgets) :
        /\ widgets[i].role = "group_header"
        /\ Commit(toggleGroupCollapse(Cur, widgets[i]._groupId), "toggle")
        /\ UNCHANGED <<id, document>>

\* the user edits a group's Max MODEL / Max CLIP control
EditGroupField ==
    \E room \in {Room}, i \in 1..Len(widgets) :
        /\ widgets[i].role \in GroupFieldRoles
        /\ \E v \in EditNums \cup {1} :
              /\ GroupEditEnabled(room, findIndex(loraState.groups,
                                                  LAMBDA g : g.id = widgets[i]._groupId),
                                  IF widgets[i].role = "group_max_model"
                                  THEN "max_model" ELSE "max_clip", v)
              /\ Commit(groupFieldCallback(Cur, id, widgets[i].role,
                                           widgets[i]._groupId, v), "edit")
        /\ UNCHANGED <<id, document>>

\* the user edits a control of a lora
EditLoraField ==
    \E room \in {Room}, i \in 1..Len(widgets) :
        /\ widgets[i].role \in LoraFieldRoles
        /\ \E v \in EditValues(widgets[i].role) :
              /\ LoraEditEnabled(room, findIndex(loraState.loras,
                                           LAMBDA l : l.id = widgets[i]._loraId),
                                 widgets[i].role, v)
              /\ Commit(loraFieldCallback(Cur, id, widgets[i].role,
                                          widgets[i]._loraId, v), "edit")
        /\ UNCHANGED <<id, document>>

\* the widgets_values entry list of a serialised node: the stack_data text at the
\* index of the stack_data control (the other controls' values are not modelled)
WidgetsValues(n) ==
    [i \in 1..Len(n.widgets) |->
        IF n.widgets[i].role = "stack_data" THEN n.stackData ELSE <<>>]

\* stack_data texts that hold no JSON: nothing, and truncated or stray text
UnreadableTexts ==
    { <<>>,
      <<"{">>,
      <<"{", Quote("groups"), ":", "[", "]", ",", Quote("loras"), ":", "[">>,
      <<"}">> }

\* JSON texts that are not a snapshot, and the empty snapshot
JSONTexts ==
    { <<"null">>, <<"5">>, <<"true">>,
      <<"{", "}">>,
      <<"{", Quote("groups"), ":", "[", "]", "}">>,
      <<"{", Quote("loras"), ":", "[", "]", "}">>,
      <<"{", Quote("groups"), ":", "[", "]", ",", Quote("loras"), ":", "[", "]", "}">> }

\* the page is reloaded: a new node instance, localStorage survives
NodeCreated ==
    /\ event # "created"
    /\ Commit(onNodeCreated(localStorage), "created")
    /\ UNCHANGED <<id, document>>

\* the host configures a new node from a workflow whose stack_data holds no JSON
ConfigureForeign ==
    \E t \in UnreadableTexts :
        /\ event = "created"
        /\ Commit(onConfigure(Cur, id, <<<<>>, t>>), "configure")
        /\ UNCHANGED <<id, document>>

\* the host configures a new node from a workflow whose stack_data holds JSON
\* that this node did not write, or holds nothing while the cache holds such JSON
ConfigureJSON ==
    \E t \in JSONTexts \cup {<<>>} :
        /\ event = "created"
        /\ Commit(onConfigure(Cur, id, <<<<>>, t>>), "configure")
        /\ UNCHANGED <<id, document>>

\* a reopen that configures the serialised instance itself
ReopenedLive(saved, nodeId) == onConfigure(saved, nodeId, WidgetsValues(saved))

\* a new instance configured with the values of the serialised node `saved`
Reopened(saved, nodeId) ==
    onConfigure(onNodeCreated(saved.localStorage), nodeId, WidgetsValues(saved))

\* the workflow is saved and opened again: the host serialises the node, creates
\* a new instance and configures it with the serialised values
Reopen ==
    /\ Commit(Reopened(serializeValue(Cur, id), id), "reopen")
    /\ UNCHANGED <<id, document>>

\* the host serialises the workflow (autosave or Save): serializeValue runs and
\* the document keeps the values of the controls
Autosave ==
    /\ Commit(serializeValue(Cur, id), "serialize")
    /\ document' = WidgetsValues(serializeValue(Cur, id))
    /\ UNCHANGED id

\* the page is reloaded: the host creates a new instance and configures it with
\* the values of its last serialisation
Reload ==
    /\ Commit(onConfigure(onNodeCreated(localStorage), id, document), "reload")
    /\ UNCHANGED <<id, document>>

\* a node as onNodeCreated leaves it
Created ==
    /\ loraState = EmptyState
    /\ nextGroupId = 1
    /\ nextLoraId = 1
    /\ collapsedGroups = {}
    /\ widgets = BaseWidgets
    /\ stackData = <<>>
    /\ _saving = FALSE
    /\ threw = FALSE
    /\ saves = 0
    /\ rebuilds = 0
    /\ peer = onNodeCreated(<<>>)
    /\ inputs = TextNodeCreated
    /\ event = "created"

Init ==
    /\ Created
    /\ id = 1
    /\ localStorage = <<>>
    /\ document = <<>>
    /\ page = PageRegistered

Next ==
    \/ ClickAddGroup
    \/ ClickAddLora
    \/ ClickGroupAddLora
    \/ ClickRemoveGroup
    \/ ClickRemoveLora
    \/ EditGroupField
    \/ EditLoraField
    \/ NodeCreated
    \/ ConfigureForeign
    \/ Reopen

Spec == Init /\ [][Next]_vars

\* loading JSON that this node did not write, from the document or from the cache
InitLoad ==
    /\ Created
    /\ id = 1
    /\ localStorage \in {<<>>} \cup { StorageKey(1) :> t : t \in JSONTexts }
    /\ document = <<>>
    /\ page = PageRegistered

NextLoad ==
    \/ ClickAddGroup
    \/ ClickAddLora
    \/ ClickGroupAddLora
    \/ ClickRemoveGroup
    \/ ClickRemoveLora
    \/ NodeCreated
    \/ ConfigureJSON

SpecLoad == InitLoad /\ [][NextLoad]_vars

\* the host's serialisations and page reloads, for every node id
InitDoc ==
    /\ Created
    /\ id \in NodeIds
    /\ localStorage = <<>>
    /\ document = <<>>
    /\ page = PageRegistered

NextDoc ==
    \/ ClickAddGroup
    \/ ClickAddLora
    \/ ClickGroupAddLora
    \/ ClickGroupHeader
    \/ Autosave
    \/ Reload

SpecDoc == InitDoc /\ [][NextDoc]_vars

----------------------------------------------------------------------------
(* Properties *)

\* the position in state.groups of the group a lora's group_id names (0: none)
GroupPos(state, groupId) ==
    IF groupId = Null THEN 0
    ELSE findIndex(state.groups, LAMBDA g : g.id = groupId)

\* two entities have the same fields and agree on all of them but those in ids
SameFieldsExcept(a, b, ids) ==
    /\ DOMAIN a = DOMAIN b
    /\ \A k \in DOMAIN a \ ids : a[k] = b[k]

\* a and b are snapshots with the same groups and loras, in the same order, the
\* same membership by group position and the same non-id fields
EquivUpToIds(a, b) ==
    /\ HasList(a, "groups") /\ HasList(a, "loras")
    /\ HasList(b, "groups") /\ HasList(b, "loras")
    /\ Len(a.groups) = Len(b.groups)
    /\ Len(a.loras) = Len(b.loras)
    /\ \A i \in 1..Len(a.groups) : SameFieldsExcept(a.groups[i], b.groups[i], {"id"})
    /\ \A j \in 1..Len(a.loras) :
          /\ SameFieldsExcept(a.loras[j], b.loras[j], {"id", "group_id"})
          /\ GroupPos(a, a.loras[j].group_id) = GroupPos(b, b.loras[j].group_id)

\* C1: saving a State Store the Mutation API produced and loading the saved
\* stack_data text into a new node yields a State Store with the same groups and
\* loras in the same order, the same membership of every lora by group position
\* and the same values of every non-id field; only id and group_id may differ.
C1_RoundTrip ==
    [][event' = "reopen" => EquivUpToIds(loraState, loraState')]_vars

\* a reopened node holding a grouped lora with lock_model = true and its
\* locked_model_value
C1_Witness ==
    /\ event = "reopen"
    /\ \E j \in 1..Len(loraState.loras) :
          /\ loraState.loras[j].group_id # Null
          /\ Flag(loraState.loras[j], "lock_model")
          /\ "locked_model_value" \in DOMAIN loraState.loras[j]

\* this step is removeGroup(groupId), called by the group's Remove button
RemoveGroupStep(groupId) ==
    /\ event' = "removeGroup"
    /\ \E i \in 1..Len(widgets) :
          widgets[i].role = "group_remove" /\ widgets[i]._groupId = groupId
    /\ loraState' = removeGroup(Cur, id, groupId).loraState

\* post holds exactly the groups and loras of pre at the positions keptGroups and
\* keptLoras, in that order, each with the fields of pre but those in groupIds
\* (groups) or in loraIds (loras)
KeepsExactly(pre, post, keptGroups, keptLoras, groupIds, loraIds) ==
    /\ Len(post.groups) = Len(keptGroups)
    /\ Len(post.loras) = Len(keptLoras)
    /\ \A j \in 1..Len(keptGroups) :
          SameFieldsExcept(pre.groups[keptGroups[j]], post.groups[j], groupIds)
    /\ \A j \in 1..Len(keptLoras) :
          SameFieldsExcept(pre.loras[keptLoras[j]], post.loras[j], loraIds)

\* removeGroup(groupId) took pre to post: one group is gone, the group with that
\* id, and with it exactly the loras whose group_id is groupId
CascadeDelete(pre, post, groupId, groupIds) ==
    /\ Len(post.groups) = Len(pre.groups) - 1
    /\ KeepsExactly(pre, post,
                    FilterIdx(pre.groups, LAMBDA g : g.id # groupId),
                    FilterIdx(pre.loras, LAMBDA l : l.group_id # groupId),
                    groupIds, {"id", "group_id"})

\* C2 as stated: removeGroup(id) for an existing group removes that group and
\* exactly the loras whose group_id equals id; every other group and lora
\* remains, in the same relative order and with unchanged non-id fields.
C2_AsStated ==
    [][\A g \in 1..MaxSize :
          RemoveGroupStep(g) => CascadeDelete(loraState, loraState', g, {"id"})]_vars

\* C2, amended: removeGroup(id) for an existing group removes that group and
\* exactly the loras whose group_id equals id; every other group and lora
\* remains, in the same relative order, with every field unchanged except id,
\* group_id and the groups' index, which becomes the group's new position.
C2_CascadeDelete ==
    [][\A g \in 1..MaxSize :
          RemoveGroupStep(g) =>
              /\ CascadeDelete(loraState, loraState', g, {"id", "index"})
              /\ \A j \in 1..Len(loraState'.groups) : loraState'.groups[j].index = j]_vars

\* a group was removed and a group and a lora remain
C2_Witness ==
    /\ event = "removeGroup"
    /\ Len(loraState.groups) >= 1
    /\ Len(loraState.loras) >= 1

\* the node after onConfigure delivers the stack_data text t
Configured(t) == onConfigure(Cur, id, <<<<>>, t>>)

\* this step is onConfigure on a new node, the host delivering the text t
ConfigureStep(t) ==
    /\ event = "created"
    /\ event' = "configure"
    /\ loraState' = Configured(t).loraState
    /\ stackData' = Configured(t).stackData

\* the text localStorage holds for this node ("" when it holds none)
CacheEntry ==
    IF StorageKey(id) \in DOMAIN localStorage THEN localStorage[StorageKey(id)] ELSE <<>>

\* value is a snapshot: an object with a groups list and a loras list
WellFormed(value) == HasList(value, "groups") /\ HasList(value, "loras")

\* text is the JSON of a snapshot
HoldsSnapshot(text) == JSONparse(text).ok /\ WellFormed(JSONparse(text).val)

\* ws shows a header for every group and a name control for every lora of state
ControlsOf(state, ws) ==
    /\ \A i \in 1..Len(state.groups) :
          \E w \in 1..Len(ws) :
              ws[w].role = "group_header" /\ ws[w]._groupId = state.groups[i].id
    /\ \A j \in 1..Len(state.loras) :
          \E w \in 1..Len(ws) :
              ws[w].role = "name" /\ ws[w]._loraId = state.loras[j].id
    /\ Cardinality({w \in 1..Len(ws) : ws[w].role = "group_header"}) = Len(state.groups)
    /\ Cardinality({w \in 1..Len(ws) : ws[w].role = "name"}) = Len(state.loras)

\* the State Store a new node without cache restores from the text alone
LoadedFrom(text) == onConfigure(onNodeCreated(<<>>), id, <<<<>>, text>>).loraState

\* the load adopted the cached snapshot S
AdoptsCache(S) ==
    /\ EquivUpToIds(S, loraState')
    /\ ControlsOf(loraState', widgets')
    /\ stackData' = JSONstringify(S)
    /\ EquivUpToIds(S, LoadedFrom(stackData'))

\* C3: when onConfigure runs on a new node whose stack_data value is empty and
\* the cache entry of the node's id holds snapshot S, restoreState adopts S as the
\* State Store (ids renumbered by the rebuild), builds the controls of S and
\* writes the JSON of S into stack_data, from which a later load restores S.
C3_EmptyFieldFallback ==
    [][(ConfigureStep(<<>>) /\ stackData = <<>> /\ HoldsSnapshot(CacheEntry))
          => AdoptsCache(JSONparse(CacheEntry).val)]_vars

\* a new node was configured with no stack_data value and now holds the groups
\* and loras of its cache entry
C3_Witness ==
    /\ event = "configure"
    /\ stackData = CacheEntry
    /\ Len(loraState.groups) >= 1
    /\ Len(loraState.loras) >= 1

\* the load adopted S, and the next save leaves a stack_data text that restores S
AdoptsThenSaves(S, t) ==
    /\ EquivUpToIds(S, loraState')
    /\ EquivUpToIds(S, LoadedFrom(saveState(Configured(t), id).stackData))

\* C4 as stated: when the stack_data value delivered at load is non-empty but
\* does not parse as JSON and the cache entry of this node holds snapshot S, the
\* load adopts S as the State Store and a subsequent save copies S into the
\* stack_data field.
C4_AsStated ==
    [][\A t \in UnreadableTexts \ {<<>>} :
          (ConfigureStep(t) /\ HoldsSnapshot(CacheEntry))
              => AdoptsThenSaves(JSONparse(CacheEntry).val, t)]_vars

\* the last event was a mutation that ended in saveState, so it came after the
\* host's last serialisation
SavedMutation == event \in {"addGroup", "addLora"}

\* C5 as stated: if a mutation and its saveState completed after the document
\* was last serialised, a reload in which the host delivers the older serialised
\* stack_data value (or no value) restores a State Store that includes that
\* mutation. Stated for the node ids for which saveState writes the cache.
C5_AsStated ==
    [][(SavedMutation /\ Truthy(id) /\ event' = "reload")
          => EquivUpToIds(loraState, loraState')]_vars

\* C6 as stated: after onConfigure/restoreState with any document or cache value
\* that parses as JSON but is not a well-formed snapshot, the State Store is
\* still an object with a groups list and a loras list, and every later
\* addGroup, addLora, removeGroup and removeLora completes without an exception.
C6_AsStated == WellFormed(loraState) /\ ~threw

\* C7: when the stack_data value at load is not parseable JSON and no cache
\* entry exists, restoreState raises no exception and leaves the State Store,
\* both id counters and the control list as they were before the load: the
\* empty default of a new node.
C7_ParseFailureContained ==
    [][\A t \in UnreadableTexts \ {<<>>} :
          (ConfigureStep(t) /\ CacheEntry = <<>>)
              => /\ ~threw'
                 /\ loraState' = loraState /\ loraState' = EmptyState
                 /\ nextGroupId' = nextGroupId
                 /\ nextLoraId' = nextLoraId
                 /\ widgets' = widgets /\ widgets' = BaseWidgets]_vars

\* a node without cache entry was configured with a truncated snapshot text
C7_Witness ==
    /\ event = "configure"
    /\ CacheEntry = <<>>
    /\ Len(stackData) > 1
    /\ ~JSONparse(stackData).ok
    /\ loraState = EmptyState

\* this step ends with a saveState that was not already in progress
SaveStep == ~_saving /\ event' \in {"serialize", "addGroup", "addLora"}

\* C8 as stated: saveState, when no save is already in progress, leaves both the
\* stack_data value and the cache entry AdvancedLoraStacker_<node id> equal to
\* JSON.stringify of the State Store, for every node id the host can assign,
\* id 0 and a not yet assigned id included.
C8_AsStated ==
    [][SaveStep => /\ stackData' = JSONstringify(loraState')
                   /\ CacheEntry' = JSONstringify(loraState')]_vars

\* C8, amended: saveState, when no save is already in progress, leaves the
\* stack_data value equal to JSON.stringify of the State Store for every node
\* id; it leaves the cache entry equal to it when the node id is truthy, and
\* leaves localStorage untouched when the id is 0 or not yet assigned.
C8_SaveState ==
    [][SaveStep => /\ stackData' = JSONstringify(loraState')
                   /\ IF Truthy(id)
                      THEN CacheEntry' = JSONstringify(loraState')
                      ELSE localStorage' = localStorage]_vars

\* a node whose id is 0 or unassigned was serialised with a group in its State
\* Store: stack_data holds it and localStorage holds nothing
C8_Witness ==
    /\ event = "serialize"
    /\ ~Truthy(id)
    /\ Len(loraState.groups) >= 1
    /\ stackData = JSONstringify(loraState)
    /\ localStorage = <<>>

\* the stack_data entry of the serialised values doc of a node with controls ws
StackDataOf(doc, ws) == doc[findIndex(ws, LAMBDA w : w.role = "stack_data")]

\* C9: whenever the host serialises the node, the value serializeValue returns
\* is JSON.stringify of the State Store at that moment, after any sequence of
\* operations, those that rebuild and renumber ids without saving
\* (toggleGroupCollapse) included.
C9_SerializeValue ==
    [][event' = "serialize"
          => /\ StackDataOf(document', widgets') = JSONstringify(loraState')
             /\ loraState' = loraState]_vars

\* the node was serialised after toggleGroupCollapse rebuilt it and gave the
\* first lora of the list the id 2
C9_Witness ==
    /\ event = "serialize"
    /\ collapsedGroups # {}
    /\ Len(loraState.loras) >= 2
    /\ loraState.loras[1].id = 2
    /\ StackDataOf(document, widgets) = JSONstringify(loraState)

\* C10 as stated, for the Mutation API operations on a node whose id is truthy:
\* whenever control returns to the host after addGroup, addLora or
\* toggleGroupCollapse, the stack_data value and this node's cache entry both
\* equal JSON.stringify of the State Store, ids included.
C10_AsStated ==
    (Truthy(id) /\ event \in {"addGroup", "addLora", "toggle"})
        => /\ stackData = JSONstringify(loraState)
           /\ CacheEntry = JSONstringify(loraState)

----------------------------------------------------------------------------
(* Calls of the Mutation API with ids the State Store does not hold *)

\* ids a caller may pass: those the model can mint, and one beyond
Ids == 1..(MaxSize + 1)

GroupIdsOf(state) == {state.groups[i].id : i \in 1..Len(state.groups)}
LoraIdsOf(state) == {state.loras[j].id : j \in 1..Len(state.loras)}

\* removeGroup(groupId) with an id no group has
RemoveMissingGroup ==
    \E g \in Ids \ GroupIdsOf(loraState) :
        /\ Commit(removeGroup(Cur, id, g), "removeMissingGroup")
        /\ UNCHANGED <<id, document>>

\* removeLora(loraId) with an id no lora has
RemoveMissingLora ==
    \E l \in Ids \ LoraIdsOf(loraState) :
        /\ Commit(removeLora(Cur, id, l), "removeMissingLora")
        /\ UNCHANGED <<id, document>>

\* the callback of a group control fires after its group left the State Store
StaleGroupEdit ==
    \E g \in Ids \ GroupIdsOf(loraState), role \in GroupFieldRoles, v \in EditNums :
        /\ Commit(groupFieldCallback(Cur, id, role, g, v), "staleGroupEdit")
        /\ UNCHANGED <<id, document>>

\* the callback of a lora control fires after its lora left the State Store
StaleLoraEdit ==
    \E l \in Ids \ LoraIdsOf(loraState), role \in LoraFieldRoles :
        \E v \in EditValues(role) :
            /\ Commit(loraFieldCallback(Cur, id, role, l, v), "staleLoraEdit")
            /\ UNCHANGED <<id, document>>

\* the smallest id no group of state has
MissingGroupId(state) ==
    CHOOSE g \in Ids \ GroupIdsOf(state) : \A h \in Ids \ GroupIdsOf(state) : g <= h

\* addLora(groupId) with a non-null id no group has
AddLoraMissingGroup ==
    \E g \in {MissingGroupId(loraState)} :
        /\ Room
        /\ Commit(addLora(Cur, id, g), "addLoraMissingGroup")
        /\ UNCHANGED <<id, document>>

\* toggleGroupCollapse(groupId) with an id no group has
ToggleMissingGroup ==
    \E g \in {MissingGroupId(loraState)} :
        /\ Commit(toggleGroupCollapse(Cur, g), "toggleMissingGroup")
        /\ UNCHANGED <<id, document>>

\* removals and edits that name an id the State Store does not hold
NextStale ==
    \/ ClickAddGroup
    \/ ClickAddLora
    \/ ClickGroupAddLora
    \/ ClickRemoveGroup
    \/ ClickRemoveLora
    \/ RemoveMissingGroup
    \/ RemoveMissingLora
    \/ StaleGroupEdit
    \/ StaleLoraEdit

SpecStale == Init /\ [][NextStale]_vars

\* addLora that names a group the State Store does not hold
NextOrphan ==
    \/ ClickAddGroup
    \/ ClickAddLora
    \/ ClickGroupAddLora
    \/ ClickRemoveGroup
    \/ ClickRemoveLora
    \/ AddLoraMissingGroup

SpecOrphan == Init /\ [][NextOrphan]_vars

\* toggleGroupCollapse, also one that names a group the State Store does not hold
NextToggle ==
    \/ ClickAddGroup
    \/ ClickAddLora
    \/ ClickGroupAddLora
    \/ ClickRemoveGroup
    \/ ClickGroupHeader
    \/ ToggleMissingGroup

SpecToggle == Init /\ [][NextToggle]_vars

\* rebuildUI called on the node as it is, with no mutation before it
Rebuild ==
    /\ Commit(rebuildUI(Cur), "rebuild")
    /\ UNCHANGED <<id, document>>

\* the controls' operations and rebuildUI on its own
NextRebuild ==
    \/ ClickAddGroup
    \/ ClickAddLora
    \/ ClickGroupAddLora
    \/ ClickRemoveGroup
    \/ ClickRemoveLora
    \/ ClickGroupHeader
    \/ Rebuild

SpecRebuild == Init /\ [][NextRebuild]_vars

\* the host calls configure on the live instance with the values it has just
\* serialised from it: onConfigure runs without an onNodeCreated before it
Reconfigure ==
    /\ Commit(onConfigure(serializeValue(Cur, id), id,
                          WidgetsValues(serializeValue(Cur, id))), "reconfigure")
    /\ UNCHANGED <<id, document>>

\* loads into a new instance and into the live instance, with collapsed groups
NextReconf ==
    \/ ClickAddGroup
    \/ ClickGroupAddLora
    \/ ClickRemoveGroup
    \/ ClickGroupHeader
    \/ Reopen
    \/ Reconfigure

SpecReconf == Init /\ [][NextReconf]_vars

\* the number of checkboxes of the loras that are switched on
NumFlagsOn(state) ==
    Cardinality({ <<k, f>> \in (1..Len(state.loras)) \X RebuildingRoles :
                    Flag(state.loras[k], f) })

\* a checkbox reports the other value; at most one checkbox is on at a time
FlagEditEnabled(idx, role, v) ==
    /\ idx >= 1
    /\ loraState.loras[idx][role] # v
    /\ v => NumFlagsOn(loraState) = 0

\* the user switches a lock or random checkbox of a lora
ToggleFlag ==
    \E i \in 1..Len(widgets), v \in BOOLEAN :
        /\ widgets[i].role \in RebuildingRoles
        /\ FlagEditEnabled(findIndex(loraState.loras, LAMBDA l : l.id = widgets[i]._loraId),
                           widgets[i].role, v)
        /\ Commit(loraFieldCallback(Cur, id, widgets[i].role, widgets[i]._loraId, v), "flag")
        /\ UNCHANGED <<id, document>>

\* the value controls that a rebuild creates only when their checkbox is on
DependentRoles ==
    {"locked_model_value", "locked_clip_value",
     "min_model", "max_model", "min_clip", "max_clip"}

\* the user edits a value control that belongs to a checkbox
EditLoraValue ==
    \E room \in {Room}, i \in 1..Len(widgets) :
        /\ widgets[i].role \in DependentRoles
        /\ \E v \in EditValues(widgets[i].role) :
              /\ LoraEditEnabled(room, findIndex(loraState.loras,
                                           LAMBDA l : l.id = widgets[i]._loraId),
                                 widgets[i].role, v)
              /\ Commit(loraFieldCallback(Cur, id, widgets[i].role,
                                          widgets[i]._loraId, v), "edit")
        /\ UNCHANGED <<id, document>>

\* click on "Add Group" while the State Store has fewer than MaxSize entities
AddGroupBesideFlags ==
    /\ NumEntities(loraState) < MaxSize
    /\ Commit(addGroup(Cur, id), "addGroup")
    /\ UNCHANGED <<id, document>>

\* click on "Add LoRA" or on a group's "Add LoRA", with the same room
AddLoraBesideFlags ==
    \E i \in 1..Len(widgets) :
        /\ widgets[i].role \in {"add_lora", "group_add_lora"}
        /\ NumEntities(loraState) < MaxSize
        /\ Commit(addLora(Cur, id, IF widgets[i].role = "add_lora" THEN Null
                                   ELSE widgets[i]._groupId), "addLora")
        /\ UNCHANGED <<id, document>>

\* adds, value edits and checkbox switches
NextFlags ==
    \/ AddGroupBesideFlags
    \/ AddLoraBesideFlags
    \/ EditLoraValue
    \/ ToggleFlag

SpecFlags == Init /\ [][NextFlags]_vars

\* from now on the browser refuses storage access
StorageBreaks ==
    /\ ~StorageThrows(localStorage)
    /\ localStorage' = (StorageDown :> <<>>) @@ localStorage
    /\ event' = "storageBreaks"
    /\ UNCHANGED <<loraState, nextGroupId, nextLoraId, collapsedGroups, widgets, stackData,
                   _saving, id, document, threw, saves, rebuilds, peer, inputs, page>>

\* adds, serialisations and page reloads, with a store that starts to throw
NextStorage ==
    \/ ClickAddGroup
    \/ ClickAddLora
    \/ ClickGroupAddLora
    \/ Autosave
    \/ Reload
    \/ StorageBreaks

SpecStorage == Init /\ [][NextStorage]_vars

\* the id of the second node instance
PeerId == 2

\* the second node as the handler of its next event finds it: its own fields,
\* and the localStorage of the page
PeerCur == [peer EXCEPT !.localStorage = localStorage, !.threw = FALSE,
                        !.saves = 0, !.rebuilds = 0]

\* the second node as its handler leaves it; the first node is not involved
PeerCommit(n, ev) ==
    /\ peer' = [n EXCEPT !.localStorage = <<>>]
    /\ localStorage' = n.localStorage
    /\ event' = ev
    /\ UNCHANGED <<loraState, nextGroupId, nextLoraId, collapsedGroups, widgets, stackData,
                   _saving, id, document, threw, saves, rebuilds, inputs, page>>

\* the two nodes together hold fewer than MaxSize entities
PeerRoom == NumEntities(loraState) + NumEntities(peer.loraState) < MaxSize

PeerAddGroup == PeerRoom /\ PeerCommit(addGroup(PeerCur, PeerId), "peerAddGroup")

PeerAddLora ==
    \E i \in 1..Len(peer.widgets) :
        /\ peer.widgets[i].role \in {"add_lora", "group_add_lora"}
        /\ PeerRoom
        /\ PeerCommit(addLora(PeerCur, PeerId,
                              IF peer.widgets[i].role = "add_lora" THEN Null
                              ELSE peer.widgets[i]._groupId), "peerAddLora")

PeerGroupHeader ==
    \E i \in 1..Len(peer.widgets) :
        /\ peer.widgets[i].role = "group_header"
        /\ PeerCommit(toggleGroupCollapse(PeerCur, peer.widgets[i]._groupId), "peerToggle")

\* the page is reloaded with a document that holds no value of the second node
PeerReload ==
    PeerCommit(onConfigure(onNodeCreated(localStorage), PeerId, <<>>), "peerReload")

\* the adds of the first node while the two nodes have room
OwnAddGroup == PeerRoom /\ ClickAddGroup
OwnAddLora == PeerRoom /\ (ClickAddLora \/ ClickGroupAddLora)

\* two nodes of one page: adds, collapse toggles and page reloads of each
NextPeers ==
    \/ OwnAddGroup
    \/ OwnAddLora
    \/ ClickGroupHeader
    \/ Reload
    \/ PeerAddGroup
    \/ PeerAddLora
    \/ PeerGroupHeader
    \/ PeerReload

SpecPeers == Init /\ [][NextPeers]_vars

\* the user deletes the node: the node type installs no onRemoved and nothing
\* else runs, so the instance's fields and localStorage stay as they are
RemoveNode ==
    /\ event # "removed"
    /\ event' = "removed"
    /\ UNCHANGED <<loraState, nextGroupId, nextLoraId, collapsedGroups, widgets, stackData,
                   _saving, id, localStorage, document, threw, saves, rebuilds, peer, inputs,
                   page>>

\* the clicks on a node that has not been deleted
LiveAddGroup == event # "removed" /\ ClickAddGroup
LiveAddLora == event # "removed" /\ (ClickAddLora \/ ClickGroupAddLora)
LiveGroupHeader == event # "removed" /\ ClickGroupHeader

\* after the deletion a node with the same id is created and configured from a
\* workflow that holds no stack_data value for it
CreateAgain ==
    /\ event = "removed"
    /\ Commit(onConfigure(onNodeCreated(localStorage), id, <<<<>>, <<>>>>), "createAgain")
    /\ UNCHANGED <<id, document>>

NextRemove ==
    \/ LiveAddGroup
    \/ LiveAddLora
    \/ LiveGroupHeader
    \/ RemoveNode
    \/ CreateAgain

SpecRemove == Init /\ [][NextRemove]_vars

\* the ids the host gives links, and the types of the outputs that the host lets
\* the user connect to a STRING input
LinkIds == {1, 2}
ParentTypes == {"STRING", "*"}

\* the TextConcatenator after an event; the stacker node is not touched
SocketCommit(ins, ev) ==
    /\ inputs' = ins
    /\ event' = ev
    /\ UNCHANGED <<loraState, nextGroupId, nextLoraId, collapsedGroups, widgets, stackData,
                   _saving, id, localStorage, document, threw, saves, rebuilds, peer, page>>

\* the user drops a link on the unlinked socket: the host sets its link and
\* signals the connection
ConnectFree ==
    \E k \in 1..Len(inputs), l \in LinkIds, t \in ParentTypes \cup {NoParent} :
        /\ inputs[k].link = Null
        /\ Len(inputs) <= MaxSize
        /\ SocketCommit(onConnectionsChange([inputs EXCEPT ![k].link = l], k, TRUE, t),
                        "connect")

\* the host signals a connection at a socket without a change of its link and
\* without link_info, as it does for the sockets of a workflow it configures
SignalConnect ==
    \E k \in 1..Len(inputs) :
        /\ event # "created"
        /\ SocketCommit(onConnectionsChange(inputs, k, TRUE, NoParent), "connect")

\* the host signals a connection at a linked socket whose link it has replaced
ConnectLinked ==
    \E k \in 1..Len(inputs), l \in LinkIds, t \in ParentTypes \cup {NoParent} :
        /\ inputs[k].link # Null
        /\ SocketCommit(onConnectionsChange([inputs EXCEPT ![k].link = l], k, TRUE, t),
                        "connect")

\* a link is removed: the host sets the socket's link to null and signals the
\* disconnection
DisconnectInput ==
    \E k \in 1..Len(inputs) :
        /\ inputs[k].link # Null
        /\ SocketCommit(onConnectionsChange([inputs EXCEPT ![k].link = Null], k, FALSE,
                                            NoParent),
                        "disconnect")

NextSockets ==
    \/ ConnectFree
    \/ SignalConnect
    \/ ConnectLinked
    \/ DisconnectInput

SpecSockets == Init /\ [][NextSockets]_vars

\* the socket at position i of a list the host hands over: named text_i, linked
\* by the link i or not linked
SocketAt(i, linked) ==
    [name |-> INPUT_PREFIX \o <<"_", ToString(i)>>,
     type |-> INPUT_TYPE,
     link |-> IF linked THEN i ELSE Null]

\* inputs lists with unlinked sockets in any number and at any position, in
\* front of the dynamic entry
SocketLists ==
    { [i \in 1..Len(pattern) |-> SocketAt(i, pattern[i])] \o TextNodeCreated :
        pattern \in UNION { [1..n -> BOOLEAN] : n \in 0..(MaxSize - 1) } }

InitSocketLists ==
    /\ loraState = EmptyState
    /\ nextGroupId = 1
    /\ nextLoraId = 1
    /\ collapsedGroups = {}
    /\ widgets = BaseWidgets
    /\ stackData = <<>>
    /\ _saving = FALSE
    /\ threw = FALSE
    /\ saves = 0
    /\ rebuilds = 0
    /\ peer = onNodeCreated(<<>>)
    /\ event = "configured"
    /\ id = 1
    /\ localStorage = <<>>
    /\ document = <<>>
    /\ page = PageRegistered
    /\ inputs \in SocketLists

\* connection-change events on a node whose inputs list is any of SocketLists
SpecSocketLists == InitSocketLists /\ [][NextSockets]_vars

\* the page after a step of the fetch; no node is touched
PageCommit(p, ev) ==
    /\ page' = p
    /\ event' = ev
    /\ UNCHANGED <<loraState, nextGroupId, nextLoraId, collapsedGroups, widgets, stackData,
                   _saving, id, localStorage, document, threw, saves, rebuilds, peer, inputs>>

\* a registration reaches "await fetchLoraList()", for the first time or again
CallFetchLoraList ==
    \E c \in Callers :
        /\ page.callers[c] \in {"idle", "registered"}
        /\ PageCommit(fetchLoraList(page, c), "fetchLoraList")

\* the fetch is settled: it is rejected, or it gives a response
FetchSettles ==
    /\ page.task = "fetching"
    /\ \/ PageCommit(CaughtFetch(page), "fetchFailed")
       \/ PageCommit([page EXCEPT !.task = "decoding"], "response")

\* response.json() is settled: it is rejected, or it gives the decoded data
JsonSettles ==
    /\ page.task = "decoding"
    /\ \/ PageCommit(CaughtFetch(page), "jsonFailed")
       \/ \E data \in DataShapes : PageCommit(Decoded(page, data), "decoded")

\* the promise is settled and a registration that awaits it goes on
Resume ==
    \E c \in Callers :
        /\ page.callers[c] = "awaiting"
        /\ page.loraListPromise \in {"resolved", "rejected"}
        /\ PageCommit(Resumed(page, c), "registered")

\* the script is loaded and the node type is not registered yet
InitFetch ==
    /\ Created
    /\ id = 1
    /\ localStorage = <<>>
    /\ document = <<>>
    /\ page = PageLoaded

NextFetch ==
    \/ CallFetchLoraList
    \/ FetchSettles
    \/ JsonSettles
    \/ Resume

SpecFetch == InitFetch /\ [][NextFetch]_vars

\* C11: removeGroup(id) and removeLora(id) with an id not in the State Store,
\* and a field-edit callback whose bound group or lora id is no longer in the
\* State Store, leave the groups, the loras, both id counters, the collapse set,
\* the control list, the stack_data value and the cache entry unchanged and
\* raise no exception.
C11_MissingIdNoOp ==
    [][event' \in {"removeMissingGroup", "removeMissingLora",
                   "staleGroupEdit", "staleLoraEdit"}
          => /\ UNCHANGED <<loraState, nextGroupId, nextLoraId, collapsedGroups,
                            widgets, stackData, localStorage>>
             /\ ~threw']_vars

\* removeLora was called with an id no lora has while the State Store held a
\* group and a lora
C11_Witness ==
    /\ event = "removeMissingLora"
    /\ Len(loraState.groups) >= 1
    /\ Len(loraState.loras) >= 1

\* C12 as stated: addLora(groupId) with a non-null groupId that matches no group
\* in the State Store is a no-op: no lora is appended, no controls are created,
\* the id counter is not advanced and nothing is saved.
C12_AsStated ==
    [][event' = "addLoraMissingGroup"
          => UNCHANGED <<loraState, widgets, nextLoraId, stackData, localStorage>>]_vars

\* C13 as stated: toggleGroupCollapse(id) with an id that matches no group in
\* the State Store is a no-op: the collapse set is left unchanged.
C13_AsStated ==
    [][event' = "toggleMissingGroup" => collapsedGroups' = collapsedGroups]_vars

\* the fields of the two lora variants, besides id, group_id, name and preset
UngroupedFields ==
    {"model_strength", "clip_strength", "random_model", "min_model", "max_model",
     "random_clip", "min_clip", "max_clip"}
LockFields == {"lock_model", "locked_model_value", "lock_clip", "locked_clip_value"}

\* every lora of state carries the fields of its variant and none of the other
VariantExclusive(state) ==
    \A j \in 1..Len(state.loras) :
        IF state.loras[j].group_id = Null
        THEN /\ UngroupedFields \subseteq DOMAIN state.loras[j]
             /\ LockFields \cap DOMAIN state.loras[j] = {}
        ELSE /\ LockFields \subseteq DOMAIN state.loras[j]
             /\ UngroupedFields \cap DOMAIN state.loras[j] = {}

\* a step that keeps the number of loras keeps the variant of each of them
KeepsVariants(pre, post) ==
    Len(pre.loras) = Len(post.loras)
        => \A j \in 1..Len(pre.loras) :
               (pre.loras[j].group_id = Null) <=> (post.loras[j].group_id = Null)

\* C14: in every state reachable through the Mutation API a lora whose group_id
\* is null carries the ungrouped fields and none of the lock fields, a lora with
\* a non-null group_id carries the four lock fields and none of the ungrouped
\* fields, and no operation (rebuildUI's group_id rewrite included) moves a lora
\* from one variant to the other.
C14_VariantExclusive ==
    [][VariantExclusive(loraState') /\ KeepsVariants(loraState, loraState')]_vars

\* a lora of each variant after a reload made rebuildUI rewrite the ids
C14_Witness ==
    /\ event = "reopen"
    /\ \E j \in 1..Len(loraState.loras) : loraState.loras[j].group_id = Null
    /\ \E j \in 1..Len(loraState.loras) : loraState.loras[j].group_id # Null

\* the index values of the groups are 1..N in list order
IndexesInOrder(state) ==
    \A i \in 1..Len(state.groups) : state.groups[i].index = i

\* C15: after addGroup, after removeGroup and after every load and rebuild the
\* index values of the groups are exactly 1..N in list order (checked in every
\* state, so also after every other operation).
C15_IndexInvariant == IndexesInOrder(loraState)

\* a group was removed and two groups are left
C15_Witness == event = "removeGroup" /\ Len(loraState.groups) = 2

\* no two groups share an id and no two loras share an id
UniqueIds(state) ==
    /\ \A i, k \in 1..Len(state.groups) : state.groups[i].id = state.groups[k].id => i = k
    /\ \A j, k \in 1..Len(state.loras) : state.loras[j].id = state.loras[k].id => j = k

\* C16: in every reachable state no two groups share an id and no two loras
\* share an id, and the id that the next addGroup or addLora mints (nextGroupId,
\* nextLoraId) is the id of no group and of no lora of the State Store, also
\* after a rebuild has reset the two counters.
C16_IdUniqueness ==
    /\ UniqueIds(loraState)
    /\ nextGroupId \notin GroupIdsOf(loraState)
    /\ nextLoraId \notin LoraIdsOf(loraState)

\* the removal of one of three loras made rebuildUI reset nextLoraId from 4 to 3
C16_Witness ==
    /\ event = "removeLora"
    /\ Len(loraState.loras) = 2
    /\ nextLoraId = 3

\* C17: a rebuildUI that follows a rebuildUI with no mutation in between leaves
\* the control sequence (roles, order, _groupId and _loraId tags), the State
\* Store and the two counters as the first one left them, from every reachable
\* state.
C17_IdempotentRebuild ==
    [][event = "rebuild" /\ event' = "rebuild"
          => UNCHANGED <<widgets, loraState, nextGroupId, nextLoraId, collapsedGroups>>]_vars

\* a rebuild that had ids to rewrite: the first lora of the list is not the
\* first lora in build order
C17_Witness ==
    /\ event = "rebuild"
    /\ Len(loraState.loras) >= 2
    /\ loraState.loras[1].id = 2

\* the controls of a group, in creation order
GroupControls(g) ==
    << Widget("group_header", g, Undefined), Widget("group_remove", g, Undefined),
       Widget("group_max_model", g, Undefined), Widget("group_max_clip", g, Undefined),
       Widget("group_add_lora", g, Undefined) >>

\* the control sequence of a lora: name, remove, preset, then the controls of
\* its variant, a value control following its flag only when the flag is set
LoraControls(lora) ==
    << Widget("name", lora.group_id, lora.id),
       Widget("lora_remove", lora.group_id, lora.id),
       Widget("preset", lora.group_id, lora.id) >>
    \o (IF lora.group_id # Null
        THEN <<Widget("lock_model", lora.group_id, lora.id)>>
             \o (IF lora.lock_model = TRUE
                 THEN <<Widget("locked_model_value", lora.group_id, lora.id)>> ELSE <<>>)
             \o <<Widget("lock_clip", lora.group_id, lora.id)>>
             \o (IF lora.lock_clip = TRUE
                 THEN <<Widget("locked_clip_value", lora.group_id, lora.id)>> ELSE <<>>)
        ELSE << Widget("model_strength", Undefined, lora.id),
                Widget("random_model", Undefined, lora.id) >>
             \o (IF lora.random_model = TRUE
                 THEN << Widget("min_model", Undefined, lora.id),
                         Widget("max_model", Undefined, lora.id) >>
                 ELSE <<>>)
             \o << Widget("clip_strength", Undefined, lora.id),
                   Widget("random_clip", Undefined, lora.id) >>
             \o (IF lora.random_clip = TRUE
                 THEN << Widget("min_clip", Undefined, lora.id),
                         Widget("max_clip", Undefined, lora.id) >>
                 ELSE <<>>))

\* the control sequences of the loras at the positions idx, one after the other
RECURSIVE LoraBlocks(_, _)
LoraBlocks(loras, idx) ==
    IF idx = <<>> THEN <<>>
    ELSE LoraControls(loras[Head(idx)]) \o LoraBlocks(loras, Tail(idx))

\* the controls of the groups from position k on, each followed by the control
\* sequences of its loras
RECURSIVE GroupBlocks(_, _)
GroupBlocks(state, k) ==
    IF k > Len(state.groups) THEN <<>>
    ELSE GroupControls(state.groups[k].id)
         \o LoraBlocks(state.loras,
                       FilterIdx(state.loras, LAMBDA l : l.group_id = state.groups[k].id))
         \o GroupBlocks(state, k + 1)

\* the build order of the controls of state
BuildOrder(state) ==
    <<seedWidget, stackDataWidget>>
    \o GroupBlocks(state, 1)
    \o LoraBlocks(state.loras, FilterIdx(state.loras, LAMBDA l : l.group_id = Null))
    \o <<addLoraButton, addGroupButton>>

\* the operations that end with a rebuildUI of the whole control list
RebuildEvents == {"removeGroup", "removeLora", "reopen"}

\* C18: immediately after rebuildUI the dynamic controls are, for each group in
\* list order, header, remove, Max MODEL, Max CLIP, add-LoRA-to-group and then
\* the control sequences of the loras of that group in loras-list order; then
\* the control sequences of the loras with null group_id in list order; then
\* the Add LoRA and Add Group buttons.
C18_BuildOrder == event \in RebuildEvents => widgets = BuildOrder(loraState)

\* a reload of a State Store that lists an ungrouped lora before a grouped one
C18_Witness ==
    /\ event = "reopen"
    /\ Len(loraState.groups) = 1
    /\ Len(loraState.loras) = 2
    /\ loraState.loras[1].group_id = Null
    /\ loraState.loras[2].group_id = 1

\* C19: in every state, also after addGroup and addLora have created controls
\* in place, the control list (role and owning ids of each control, in order)
\* equals the build order of the State Store: each group's controls followed
\* by its loras' controls, all group blocks before the ungrouped loras'
\* controls, as a full rebuildUI would lay them out.
C19_AsStated == widgets = BuildOrder(loraState)

\* the number of positions of the control list that hold the control w
Occurrences(w) == Cardinality({i \in 1..Len(widgets) : widgets[i] = w})

\* C20: in every reachable state the last two controls of the control list are
\* the Add LoRA button followed by the Add Group button, and the permanent
\* controls (seed, stack_data, the two action buttons) are all in the list:
\* neither clearDynamicWidgets nor any other operation removes one of them.
C20_ActionButtonsLast ==
    /\ Len(widgets) >= 4
    /\ widgets[Len(widgets) - 1] = addLoraButton
    /\ widgets[Len(widgets)] = addGroupButton
    /\ \A w \in {seedWidget, stackDataWidget, addLoraButton, addGroupButton} :
          Occurrences(w) = 1

\* clearDynamicWidgets has run in a removeGroup and a lora's controls were
\* built again before the two buttons
C20_Witness ==
    /\ event = "removeGroup"
    /\ Len(loraState.loras) >= 1
    /\ Len(widgets) > 4

\* C21: whenever a group's id is in the collapse set, every control of that
\* group (Max MODEL, Max CLIP, add-LoRA and the controls of its loras) other
\* than the collapse toggle and the remove control adds zero height to the
\* layout, while it stays in the control list.
C21_AsStated ==
    \A i \in 1..Len(widgets) :
        /\ widgets[i]._groupId \in collapsedGroups
        /\ widgets[i].role \notin {"group_header", "group_remove"}
        => /\ WidgetHeight(widgets[i]) = 0
           /\ computeSize(widgets) = computeSize(splice(widgets, i))

\* C22 as stated: after every load that replaces the State Store the collapse
\* set is empty, whatever it held before the load.
C22_AsStated == event \in {"reopen", "reconfigure"} => collapsedGroups = {}

\* C22: after every load into a newly created instance (onNodeCreated, then
\* onConfigure/restoreState) the collapse set is empty, whatever the collapse
\* set of the serialised instance held; restoreState itself leaves the collapse
\* set as it is.
C22_FreshLoad ==
    [][/\ event' = "reopen" => collapsedGroups' = {}
       /\ event' = "reconfigure" => collapsedGroups' = collapsedGroups]_vars

\* a snapshot with a group and its lora loaded into a new instance
C22_Witness ==
    /\ event = "reopen"
    /\ Len(loraState.groups) >= 1
    /\ Len(loraState.loras) >= 1
    /\ collapsedGroups = {}

\* the step switched one flag of one lora and left every other field of every
\* lora, but those named in ids, as it was
OneFlagSwitched(pre, post, ids) ==
    /\ Len(post.loras) = Len(pre.loras)
    /\ \A k \in 1..Len(pre.loras) : DOMAIN post.loras[k] = DOMAIN pre.loras[k]
    /\ Cardinality({ <<k, f>> \in (1..Len(pre.loras)) \X (LoraFieldRoles \cup {"id", "group_id"}) :
                       /\ f \in DOMAIN pre.loras[k]
                       /\ f \notin ids
                       /\ post.loras[k][f] # pre.loras[k][f] }) = 1
    /\ \E k \in 1..Len(pre.loras), f \in RebuildingRoles :
          f \in DOMAIN pre.loras[k] /\ post.loras[k][f] # pre.loras[k][f]

\* the step switched a flag of a lora from true to false
FlagCleared(pre, post) ==
    \E k \in 1..Len(pre.loras), f \in RebuildingRoles :
        Flag(pre.loras[k], f) /\ ~Flag(post.loras[k], f)

\* C23 as stated: a field edit that sets a flag to false and rebuilds leaves the
\* stored min_*/max_* or locked_*_value of that lora and every field of every
\* other entity unchanged.
C23_AsStated ==
    [][event' = "flag" /\ FlagCleared(loraState, loraState')
          => /\ loraState'.groups = loraState.groups
             /\ OneFlagSwitched(loraState, loraState', {})]_vars

\* C23: a field edit that switches random_model, random_clip, lock_model or
\* lock_clip and rebuilds changes that flag only: the stored min_*/max_* or
\* locked_*_value of the lora and every other field of every lora and group
\* stay as they were, except the loras' id, which the rebuild renumbers; the
\* value controls of the flag are in the control list after the step exactly
\* when the flag is true.
C23_FlagHidesOnly ==
    [][event' = "flag"
          => /\ loraState'.groups = loraState.groups
             /\ OneFlagSwitched(loraState, loraState', {"id"})
             /\ widgets' = BuildOrder(loraState')]_vars

\* random_model was switched off and the edited min_model is still stored
C23_Witness ==
    /\ event = "flag"
    /\ \E j \in 1..Len(loraState.loras) :
          /\ loraState.loras[j].group_id = Null
          /\ loraState.loras[j].random_model = FALSE
          /\ loraState.loras[j].min_model = 2

\* C24: every mutation returns to the host with the _saving guard false and
\* has run the body of saveState at most once; switching a lock or randomize
\* checkbox runs exactly one rebuildUI and exactly one saveState, an add or a
\* value edit one saveState and no rebuildUI.
C24_OneSaveNoReentry ==
    /\ _saving = FALSE
    /\ saves <= 1
    /\ rebuilds <= 1
    /\ event = "flag" => saves = 1 /\ rebuilds = 1
    /\ event \in {"addGroup", "addLora", "edit"} => saves = 1 /\ rebuilds = 0

\* a checkbox of a grouped lora was switched on, beside an ungrouped lora
C24_Witness ==
    /\ event = "flag"
    /\ saves = 1
    /\ \E j \in 1..Len(loraState.loras) : Flag(loraState.loras[j], "lock_clip")
    /\ \E j \in 1..Len(loraState.loras) : loraState.loras[j].group_id = Null

\* the stack_data text of the host's last serialisation ("" before the first)
DocumentText == IF document = <<>> THEN <<>> ELSE StackDataOf(document, BaseWidgets)

\* C25: while localStorage throws on write and on read, saveState still sets
\* stack_data to JSON.stringify of the State Store, leaves _saving false and
\* raises nothing (the cache stays as it was), and a reload restores the
\* snapshot of the document field; with an empty document field it leaves the
\* new node empty, again without an exception.
C25_StorageFailureSilent ==
    [][StorageThrows(localStorage)
          => /\ event' \in {"addGroup", "addLora", "serialize"}
                  => /\ saves' = 1
                     /\ stackData' = JSONstringify(loraState')
                     /\ ~_saving' /\ ~threw'
                     /\ localStorage' = localStorage
             /\ event' = "reload"
                  => /\ ~threw' /\ ~_saving'
                     /\ IF DocumentText = <<>> THEN loraState' = EmptyState
                        ELSE EquivUpToIds(JSONparse(DocumentText).val, loraState')]_vars

\* a reload restored a lora from the document while the store throws and the
\* cache holds no entry of the node
C25_Witness ==
    /\ event = "reload"
    /\ StorageThrows(localStorage)
    /\ StorageKey(id) \notin DOMAIN localStorage
    /\ Len(loraState.loras) >= 1

\* the text the cache holds under the key of nodeId ("" when it holds none)
EntryOf(store, nodeId) ==
    IF StorageKey(nodeId) \in DOMAIN store THEN store[StorageKey(nodeId)] ELSE <<>>

\* the store with no entry but the one of nodeId
OnlyEntryOf(store, nodeId) ==
    IF StorageKey(nodeId) \in DOMAIN store
    THEN StorageKey(nodeId) :> store[StorageKey(nodeId)]
    ELSE <<>>

PeerEvents == {"peerAddGroup", "peerAddLora", "peerToggle", "peerReload"}

\* C26: with two node instances of different ids, an operation (mutation, save,
\* load) on one node leaves the other node's State Store, collapse set,
\* stack_data value and cache entry unchanged, and a node's load gives what it
\* gives when the cache holds the entry of its own id and nothing else.
C26_NodeIsolation ==
    [][/\ event' \in PeerEvents
            => /\ UNCHANGED <<loraState, collapsedGroups, stackData, widgets>>
               /\ EntryOf(localStorage', id) = EntryOf(localStorage, id)
       /\ event' \notin PeerEvents
            => /\ peer' = peer
               /\ EntryOf(localStorage', PeerId) = EntryOf(localStorage, PeerId)
       /\ event' = "reload"
            => loraState' = onConfigure(onNodeCreated(OnlyEntryOf(localStorage, id)),
                                        id, document).loraState
       /\ event' = "peerReload"
            => peer'.loraState = onConfigure(onNodeCreated(OnlyEntryOf(localStorage, PeerId)),
                                             PeerId, <<>>).loraState]_vars

\* the second node was reloaded from its cache entry while the first node's
\* entry holds a different snapshot
C26_Witness ==
    /\ event = "peerReload"
    /\ Len(peer.loraState.loras) >= 1
    /\ Len(loraState.groups) >= 1
    /\ EntryOf(localStorage, id) # <<>>
    /\ EntryOf(localStorage, id) # EntryOf(localStorage, PeerId)

\* C27 as stated: after the node is removed the cache holds no entry under the
\* key of its id, and a node created later with the same id and an empty
\* document field starts from the empty default.
C27_AsStated ==
    /\ event = "removed" => EntryOf(localStorage, id) = <<>>
    /\ event = "createAgain" => loraState = EmptyState

\* the positions of the unlinked sockets
Unlinked(ins) == { k \in 1..Len(ins) : ins[k].link = Null }

\* C28: after every input connection-change event of the TextConcatenator
\* (connect or disconnect at any slot) the inputs list holds exactly one unlinked
\* socket, it is the last socket, and its name is "text" and its type STRING.
C28_OneTrailingSocket ==
    event \in {"connect", "disconnect"}
        => /\ Unlinked(inputs) = {Len(inputs)}
           /\ inputs # <<>>
           /\ inputs[Len(inputs)].name = INPUT_PREFIX
           /\ inputs[Len(inputs)].type = INPUT_TYPE

\* C28 witness: a link in front of two linked sockets was removed
C28_Witness ==
    /\ event = "disconnect"
    /\ Len(inputs) = 3
    /\ inputs[1].name = <<"text", "_", "1">>
    /\ inputs[2].name = <<"text", "_", "2">>
    /\ inputs[2].type = "*"

\* post is pre with one element more, at the end
AppendsOne(pre, post) ==
    /\ Len(post) = Len(pre) + 1
    /\ SubSeq(post, 1, Len(pre)) = pre

\* the fields of a lora that addLora fills with the defaults of its variant
GroupedDefaults(lora) ==
    /\ lora.lock_model = FALSE /\ lora.locked_model_value = 0
    /\ lora.lock_clip = FALSE /\ lora.locked_clip_value = 0

UngroupedDefaults(lora) ==
    /\ lora.model_strength = 1 /\ lora.clip_strength = 1
    /\ lora.random_model = FALSE /\ lora.min_model = 0 /\ lora.max_model = 1
    /\ lora.random_clip = FALSE /\ lora.min_clip = 0 /\ lora.max_clip = 1

LoraDefaults(lora) ==
    /\ lora.name = "None"
    /\ lora.preset = "Full"
    /\ IF lora.group_id = Null THEN UngroupedDefaults(lora) ELSE GroupedDefaults(lora)

GroupDefaults(group, count) ==
    /\ group.max_model = 1
    /\ group.max_clip = 1
    /\ group.index = count

\* C29: addGroup appends exactly one group at the end of the groups list, with
\* max_model 1.0, max_clip 1.0 and index = the new number of groups; addLora
\* appends exactly one lora at the end of the loras list, with name None, preset
\* Full and the defaults of its variant; the groups and loras that were there
\* are unchanged by either operation.
C29_AddAppendsDefaults ==
    [][/\ event' = "addGroup"
          => /\ AppendsOne(loraState.groups, loraState'.groups)
             /\ GroupDefaults(loraState'.groups[Len(loraState'.groups)],
                              Len(loraState'.groups))
             /\ loraState'.loras = loraState.loras
       /\ event' = "addLora"
          => /\ AppendsOne(loraState.loras, loraState'.loras)
             /\ LoraDefaults(loraState'.loras[Len(loraState'.loras)])
             /\ loraState'.groups = loraState.groups]_vars

\* C29 witness: a lora was added to a group beside an ungrouped lora
C29_Witness ==
    /\ event = "addLora"
    /\ Len(loraState.groups) = 1
    /\ Len(loraState.loras) = 2
    /\ loraState.loras[1].group_id = Null
    /\ loraState.loras[2].group_id = loraState.groups[1].id

\* the control list holds a control of this role for the lora
HasControl(role, lora) ==
    \E i \in 1..Len(widgets) : widgets[i].role = role /\ widgets[i]._loraId = lora.id

\* the value controls that belong to each checkbox
DependentOf(flag) ==
    IF flag = "lock_model" THEN {"locked_model_value"}
    ELSE IF flag = "lock_clip" THEN {"locked_clip_value"}
    ELSE IF flag = "random_model" THEN {"min_model", "max_model"}
    ELSE {"min_clip", "max_clip"}

\* every lora has the value controls of a checkbox exactly when the flag of its
\* variant is true
DependentControlsFollowFlags ==
    \A i \in 1..Len(loraState.loras) :
        \A flag \in (IF loraState.loras[i].group_id # Null
                      THEN {"lock_model", "lock_clip"}
                      ELSE {"random_model", "random_clip"}) :
            \A role \in DependentOf(flag) :
                HasControl(role, loraState.loras[i]) <=> loraState.loras[i][flag] = TRUE

\* the flags of the loras, in the order of the list
FlagsOf(state) ==
    [i \in 1..Len(state.loras) |->
        [flag \in RebuildingRoles \cap DOMAIN state.loras[i] |-> state.loras[i][flag]]]

\* C30: in every reachable state a grouped lora has a locked-value control for a
\* channel iff its lock flag for the channel is true, and an ungrouped lora has
\* the Min and Max controls for a channel iff its random flag for the channel is
\* true; an edit of a plain value (name, preset, strength, ceiling, locked, min
\* or max value) saves, once, and leaves the control list as it was.
C30_DependentControls ==
    /\ []DependentControlsFollowFlags
    /\ [][event' = "edit" /\ FlagsOf(loraState') = FlagsOf(loraState)
            => /\ widgets' = widgets
               /\ rebuilds' = 0
               /\ saves' = 1
               /\ stackData' = JSONstringify(loraState')]_vars

\* C30 witness: the Min MODEL value of an ungrouped lora with Random MODEL on was
\* edited
C30_Witness ==
    /\ event = "edit"
    /\ Len(loraState.loras) = 1
    /\ loraState.loras[1].group_id = Null
    /\ loraState.loras[1].random_model = TRUE
    /\ loraState.loras[1].min_model = 2
    /\ HasControl("min_model", loraState.loras[1])
    /\ ~HasControl("min_clip", loraState.loras[1])

\* C31 as stated: toggleGroupCollapse(id) for a group of the State Store flips
\* the membership of exactly that id in the collapse set and leaves the State
\* Store (ids and group_ids included), the stack_data value and the cache entry
\* unchanged.
C31_AsStated ==
    [][event' = "toggle"
          => /\ \E g \in GroupIdsOf(loraState) :
                    collapsedGroups' = IF g \in collapsedGroups
                                       THEN collapsedGroups \ {g}
                                       ELSE collapsedGroups \cup {g}
             /\ loraState' = loraState
             /\ stackData' = stackData
             /\ EntryOf(localStorage', id) = EntryOf(localStorage, id)]_vars

\* the positions of the groups / loras of the State Store with this id
GroupsWithId(groupId) ==
    { k \in 1..Len(loraState.groups) : loraState.groups[k].id = groupId }
LorasWithId(loraId) ==
    { j \in 1..Len(loraState.loras) : loraState.loras[j].id = loraId }

\* the tags of the control w name exactly one entity: a group control its
\* group, a lora control its lora and, where it carries a _groupId, the
\* group_id of that lora (and with it a group, unless the lora is ungrouped)
TagsNameOneEntity(w) ==
    IF w._loraId = Undefined
    THEN Cardinality(GroupsWithId(w._groupId)) = 1
    ELSE /\ Cardinality(LorasWithId(w._loraId)) = 1
         /\ w._groupId # Undefined
                => \A j \in LorasWithId(w._loraId) : loraState.loras[j].group_id = w._groupId
         /\ w._groupId \notin {Undefined, Null}
                => Cardinality(GroupsWithId(w._groupId)) = 1

\* C32: whenever control returns to the host, every dynamic control of the
\* control list carries a _groupId and/or a _loraId that names exactly one
\* entity of the State Store (the id its callback captured is that tag), and the
\* _groupId of a lora control is the group_id of its lora.
C32_ControlTagging ==
    \A i \in 1..Len(widgets) :
        widgets[i] \notin {seedWidget, stackDataWidget, addLoraButton, addGroupButton}
            => TagsNameOneEntity(widgets[i])

\* C32 witness: the first of two groups was removed, and the rebuild gave the
\* remaining group and its lora new ids and new controls
C32_Witness ==
    /\ event = "removeGroup"
    /\ Len(loraState.groups) = 1
    /\ Len(loraState.loras) = 1
    /\ loraState.loras[1].group_id = 1
    /\ \E i \in 1..Len(widgets) : widgets[i].role = "lock_model" /\ widgets[i]._groupId = 1

\* C33: the candidate-name list is fetched at most once per page, however often
\* fetchLoraList is called and however many calls overlap before the first one
\* is resolved; the first element of the list is always "None"; and when the
\* fetch or its JSON decoding fails, the list stays ["None"], no exception
\* escapes (the promise is never rejected) and every registration that awaits
\* the promise goes on to register.
C33_FetchOnce ==
    /\ page.fetches <= 1
    /\ Head(page.availableLoRAs) = "None"
    /\ page.errors > 0 => page.availableLoRAs = <<"None">>
    /\ page.loraListPromise # "rejected"
    /\ page.task = "done" => page.loraListPromise = "resolved"
    /\ \A c \in Callers : page.callers[c] # "aborted"

\* C33 witness: two registrations called before the fetch was settled, the
\* decoding failed, and both have registered
C33_Witness ==
    /\ event = "registered"
    /\ page.fetches = 1
    /\ page.errors = 1
    /\ page.callers[1] = "registered"
    /\ page.callers[2] = "registered"
    /\ page.availableLoRAs = <<"None">>

\* the links of the linked sockets, in the order of the list
LinksOf(ins) == SelectSeq([k \in 1..Len(ins) |-> ins[k].link], LAMBDA l : l # Null)

\* the lists the handler can have found when the event ev was signalled for the
\* list ins: the host has set one link (connect), left the links as they were
\* (connect) or set the link of a linked socket to null (disconnect)
ListsSignalled(ins, ev) ==
    IF ev = "disconnect"
    THEN { [ins EXCEPT ![k].link = Null] : k \in { j \in 1..Len(ins) : ins[j].link # Null } }
    ELSE {ins} \cup { [ins EXCEPT ![k].link = l] : k \in 1..Len(ins), l \in LinkIds }

\* C34 as stated: a connection-change event removes only sockets whose link is
\* absent: every socket that has a link when the handler starts is in the list
\* when it returns, whatever the number and positions of the unlinked sockets.
C34_AsStated ==
    [][event' \in {"connect", "disconnect"}
          => \E found \in ListsSignalled(inputs, event') :
                 LinksOf(inputs') = LinksOf(found)]_vars

SameGroupPairs(state) ==
    { pair \in (1..Len(state.loras)) \X (1..Len(state.loras)) :
        state.loras[pair[1]].group_id = state.loras[pair[2]].group_id }

\* C36: rebuildUI changes nothing in the State Store but id and group_id values:
\* the order of the lists and every other field are unchanged, two loras belong
\* to the same group after the rebuild iff they did before, and a lora belongs
\* to the group at list position k after the rebuild iff it did before.
C36_ConsistentRenaming ==
    [][event' \in {"rebuild", "toggle"}
          => /\ EquivUpToIds(loraState, loraState')
             /\ SameGroupPairs(loraState') = SameGroupPairs(loraState)]_vars

\* C36 witness: a rebuild gave the ungrouped lora in front of a grouped lora
\* the id 2, and the lora of the group behind it the id 1
C36_Witness ==
    /\ event \in {"rebuild", "toggle"}
    /\ Len(loraState.loras) = 2
    /\ loraState.loras[1].id = 2
    /\ loraState.loras[1].group_id = Null
    /\ loraState.loras[2].id = 1
    /\ loraState.loras[2].group_id = 1

\* the name controls of the control list that carry the id of this lora
NameControlsOf(lora) ==
    { i \in 1..Len(widgets) : widgets[i].role = "name" /\ widgets[i]._loraId = lora.id }

\* C37 as stated: in every state reachable through the Mutation API the group_id
\* of every lora is null or the id of a group of the State Store, so that the
\* control list holds the controls of every lora exactly once.
C37_AsStated ==
    \A j \in 1..Len(loraState.loras) :
        /\ \/ loraState.loras[j].group_id = Null
           \/ Cardinality(GroupsWithId(loraState.loras[j].group_id)) = 1
        /\ Cardinality(NameControlsOf(loraState.loras[j])) = 1

\* this step removed the group at list position r, and only that reading of
\* the step gives the State Store the step left
RemovedGroupAt(r) ==
    /\ EquivUpToIds(removeGroupAt(Cur, id, loraState.groups[r].id, r).loraState, loraState')
    /\ \A q \in 1..Len(loraState.groups) \ {r} :
          ~EquivUpToIds(removeGroupAt(Cur, id, loraState.groups[q].id, q).loraState,
                        loraState')

\* the list position that the group at position k after the removal of the
\* group at position r had before it
PositionBefore(k, r) == IF k < r THEN k ELSE k + 1

\* C38 as stated: removeGroup does not change which of the remaining groups are
\* collapsed (a group that was collapsed before the removal of a sibling is
\* collapsed afterwards, one that was expanded is expanded), and a newly added
\* group is never collapsed.
C38_AsStated ==
    [][/\ event' = "removeGroup"
          => \A r \in 1..Len(loraState.groups) :
                 RemovedGroupAt(r)
                     => \A k \in 1..Len(loraState'.groups) :
                            loraState'.groups[k].id \in collapsedGroups'
                                <=> loraState.groups[PositionBefore(k, r)].id
                                        \in collapsedGroups
       /\ event' = "addGroup"
          => loraState'.groups[Len(loraState'.groups)].id \notin collapsedGroups']_vars

\* the positions of the stack_data control in the control list ws
StackDataPositions(ws) == { i \in 1..Len(ws) : ws[i] = stackDataWidget }

\* C39: after any sequence of add, remove, toggle, rebuild and clear operations
\* the stack_data control is at the position it has on a freshly created node,
\* so that the index onConfigure finds for it on a new node designates, in the
\* serialised control values, the value that was serialised for stack_data.
C39_StackDataIndex ==
    /\ StackDataPositions(widgets) = StackDataPositions(BaseWidgets)
    /\ Cardinality(StackDataPositions(widgets)) = 1
    /\ \A i \in StackDataPositions(BaseWidgets) :
          WidgetsValues(serializeValue(Cur, id))[i] = JSONstringify(loraState)

\* C39 witness: a group with a lora was collapsed, which cleared and rebuilt the
\* control list behind the stack_data control
C39_Witness ==
    /\ event = "toggle"
    /\ collapsedGroups # {}
    /\ Len(loraState.loras) >= 1
    /\ Len(widgets) > 9
    /\ widgets[2] = stackDataWidget

====
